---- MODULE Spec2Model ----
(***************************************************************************)
(* A model of the tensor-algebra core of AROMA:                            *)
(*   - aroma/util/sparse.py: CSRAssembler, VectorAssembler                 *)
(*   - aroma/affine/integrands/__init__.py: the Integrand registry, the    *)
(*     dense, sparse-matrix and COO-tensor wrappers, persistence, prop     *)
(*                                                                         *)
(* Conventions.  A numpy array of rank 1 that is used as a list (index     *)
(* arrays, data arrays, contraction vectors) is a sequence; position p of  *)
(* the sequence is numpy position p-1.  Coordinates stored IN such arrays  *)
(* keep numpy's 0-based values.  Positions stored in arrays (order, inds,  *)
(* indptr) are kept as the model's 1-based positions, resp. 0-based        *)
(* offsets for indptr.  Floating point values are modelled by integers,    *)
(* i.e. by exact arithmetic.  None is the empty sequence.                  *)
(***************************************************************************)
EXTENDS Integers, Sequences, FiniteSets, TLC

VARIABLES
    coords,      \* SpecAsm: the coordinate arrays an assembler was built from
    asm,         \* SpecAsm: the assembler (or the error its constructor raised)
    asmCall,     \* SpecAsm: the data vector of the last __call__
    asmRet,      \* SpecAsm: what the last __call__ returned
    dense,       \* SpecThin: a NumpyArrayIntegrand
    sparse,      \* SpecThin: the ScipyArrayIntegrand of the same matrix
    thinCall,    \* SpecThin: the operation applied to both, with its argument
    thinRet,     \* SpecThin: what it returned on dense and on sparse
    cooArgs,     \* SpecCOO: the arguments of COOTensorIntegrand(shape, i, j, k, data)
    coo,         \* SpecCOO: the COOTensorIntegrand (or the constructor's error)
    cooCall,     \* SpecCOO: the operation applied to coo, with its argument
    cooRet,      \* SpecCOO: what it returned
    orig,        \* SpecIO: an integrand of one of the three variants
    group,       \* SpecIO: the group orig.write produced
    loaded,      \* SpecIO: what Integrand.read made of the group
    px,          \* SpecProp: an integrand whose metadata is read and set
    propCall,    \* SpecProp: the arguments of the last prop call
    propRet,     \* SpecProp: what the last prop call returned
    firstSet,    \* SpecProp: per key, the value of the first call that set it
    subclasses,  \* SpecReg: Integrand.subclasses, in insertion order
    heap,        \* SpecReg: the Integrand objects that exist, by identity
    makeCall,    \* SpecReg: the argument of the last Integrand.make
    makeRet,     \* SpecReg: what the last Integrand.make returned
    ox,          \* SpecOps: an integrand of one of the variants
    opCall,      \* SpecOps: the last get, contract or project on ox
    opRet,       \* SpecOps: what it returned
    intCall,     \* SpecLazy: the arguments of the last integrate(*args)
    intRet,      \* SpecLazy: what it returned
    intLog,      \* SpecLazy: the class-level integrate calls it made
    shared,      \* SpecShare: a COOTensorIntegrand that workers share
    frozen,      \* SpecShare: shared as ensure_shareable left it
    workers,     \* SpecShare: per worker, the call in progress and its locals
    lx,          \* SpecLife: an integrand over its whole lifetime
    lx0,         \* SpecLife: lx as its constructor left it
    lArgs,       \* SpecLife: the arguments lx was constructed with
    lCall,       \* SpecLife: the last operation on lx, with its arguments
    lRet,        \* SpecLife: what it returned
    cArgs,       \* SpecCtor: the arguments of a constructor call
    cRet,        \* SpecCtor: the object constructed, or the error raised
    nsFn,        \* SpecNewton: the solver that runs
    nsMaxit,     \* SpecNewton: its argument maxit
    nsTol,       \* SpecNewton: its argument newton_tol
    nsIt,        \* SpecNewton: the loop counter it
    nsNorms,     \* SpecNewton: update_norm of every iteration so far
    nsUpdates,   \* SpecNewton: the number of updates added to lhs so far
    nsPc,        \* SpecNewton: the position of the solver in its loop
    integrands,  \* SpecCase: Case._integrands
    computed,    \* SpecCase: Case._computed
    integrations,\* SpecCase: per (name, domain), the domain.integrate calls made
    caseCall,    \* SpecCase: the last call on the case, with its arguments
    caseRet      \* SpecCase: what the last Case.integrate returned

asmVars == <<coords, asm, asmCall, asmRet>>
thinVars == <<dense, sparse, thinCall, thinRet>>
cooVars == <<cooArgs, coo, cooCall, cooRet>>
ioVars == <<orig, group, loaded>>
propVars == <<px, propCall, propRet, firstSet>>
regVars == <<subclasses, heap, makeCall, makeRet>>
opsVars == <<ox, opCall, opRet>>
lazyVars == <<intCall, intRet, intLog>>
shareVars == <<shared, frozen, workers>>
lifeVars == <<lx, lx0, lArgs, lCall, lRet>>
ctorVars == <<cArgs, cRet>>
newtonVars == <<nsFn, nsMaxit, nsTol, nsIt, nsNorms, nsUpdates, nsPc>>
caseVars == <<integrands, computed, integrations, caseCall, caseRet>>
restVars == <<lifeVars, ctorVars, newtonVars, caseVars>>
baseVars == <<asmVars, thinVars, cooVars, ioVars, propVars, regVars,
              opsVars, lazyVars, shareVars>>
vars == <<baseVars, restVars>>

\* ------------------------------------------------------------------ bounds
\* Largest number of raw (coordinate, value) contributions to an assembler.
MaxNnz == 3
\* Largest number of raw entries handed to COOTensorIntegrand.
MaxCooNnz == 2
\* Values of the data arrays (exact zero included: it is a legal contribution).
Vals == {0, 1, 2}
NoneVal == << >>
Idle == [kind |-> "idle"]
NoCall == [op |-> "none"]

\* The variables of a component that a specification does not exercise.
AsmIdle == coords = << >> /\ asm = Idle /\ asmCall = << >> /\ asmRet = Idle
ThinIdle == dense = Idle /\ sparse = Idle /\ thinCall = NoCall /\ thinRet = Idle
CooIdle == cooArgs = Idle /\ coo = Idle /\ cooCall = NoCall /\ cooRet = Idle
IoIdle == orig = Idle /\ group = Idle /\ loaded = Idle
PropIdle == px = Idle /\ propCall = NoCall /\ propRet = Idle /\ firstSet = << >>
RegIdle == subclasses = << >> /\ heap = << >> /\ makeCall = NoCall /\ makeRet = Idle
OpsIdle == ox = Idle /\ opCall = NoCall /\ opRet = Idle
LazyIdle == intCall = NoCall /\ intRet = Idle /\ intLog = << >>
ShareIdle == shared = Idle /\ frozen = Idle /\ workers = << >>
LifeIdle ==
    lx = Idle /\ lx0 = Idle /\ lArgs = << >> /\ lCall = NoCall /\ lRet = Idle
CtorIdle == cArgs = Idle /\ cRet = Idle
NewtonIdle ==
    /\ nsFn = "none" /\ nsMaxit = 0 /\ nsTol = 0 /\ nsIt = 0 /\ nsNorms = << >>
    /\ nsUpdates = 0 /\ nsPc = "idle"
CaseIdle ==
    /\ integrands = << >> /\ computed = << >> /\ integrations = << >>
    /\ caseCall = NoCall /\ caseRet = Idle
BaseIdle ==
    /\ AsmIdle /\ ThinIdle /\ CooIdle /\ IoIdle /\ PropIdle /\ RegIdle
    /\ OpsIdle /\ LazyIdle /\ ShareIdle
RestIdle == LifeIdle /\ CtorIdle /\ NewtonIdle /\ CaseIdle

\* ----------------------------------------------------------- numpy helpers
RECURSIVE SumSeq(_)
SumSeq(s) == IF s = << >> THEN 0 ELSE Head(s) + SumSeq(Tail(s))

RECURSIVE SumSet(_, _)
\* the sum of f[x] over x in S
SumSet(f, S) ==
    IF S = {} THEN 0
    ELSE LET x == CHOOSE y \in S : TRUE IN f[x] + SumSet(f, S \ {x})

MaxOf(s) == CHOOSE m \in {s[k] : k \in 1..Len(s)} : \A k \in 1..Len(s) : s[k] <= m
MaxOrZero(s) == IF Len(s) = 0 THEN 0 ELSE MaxOf(s)

\* a[idx]: fancy indexing with an array of positions
Take(a, idx) == [k \in 1..Len(idx) |-> a[idx[k]]] \o << >>

\* np.nonzero(mask): the positions where mask holds, ascending
RECURSIVE NonzeroFrom(_, _)
NonzeroFrom(mask, k) ==
    IF k > Len(mask) THEN << >>
    ELSE (IF mask[k] THEN <<k>> ELSE << >>) \o NonzeroFrom(mask, k + 1)
Nonzero(mask) == NonzeroFrom(mask, 1)

\* a[mask]: boolean indexing
MaskSelect(a, mask) == Take(a, Nonzero(mask))

\* The set of index tuples of an array of the given shape.
Indices(shape) ==
    {ix \in [1..Len(shape) -> 0..MaxOrZero(shape)] :
        \A a \in 1..Len(shape) : ix[a] < shape[a]}

NdArray(shape, val) == [kind |-> "ndarray", shape |-> shape, val |-> val]
Raise(e) == [kind |-> "error", err |-> e]
IsError(v) == v.kind = "error"

\* np.lexsort(keys): the stable ascending sort permutation.  less[i, j] says
\* that entry i sorts strictly before entry j by key alone.
StableOrder(n, less) ==
    LET Before(j, i) == less[j, i] \/ (~less[i, j] /\ j < i)
        Rank(i) == 1 + Cardinality({j \in 1..n : Before(j, i)})
    IN [p \in 1..n |-> CHOOSE i \in 1..n : Rank(i) = p] \o << >>

\* np.add.reduceat(a, inds) for strictly increasing inds
ReduceAt(a, inds) ==
    [s \in 1..Len(inds) |->
        LET lo == inds[s]
            hi == IF s = Len(inds) THEN Len(a) ELSE inds[s + 1] - 1
        IN SumSeq(SubSeq(a, lo, hi))] \o << >>

\* sptools.coo_tocsr(M, N, nnz, row, col, data, indptr, indices, new_data):
\* a counting sort by row that keeps the input order inside each row.
RowOrder(M, row) ==
    StableOrder(Len(row), [i \in 1..Len(row), j \in 1..Len(row) |-> row[i] < row[j]])
CooToCsr(M, N, row, col, data) ==
    LET ord == RowOrder(M, row)
    IN [kind |-> "csr", shape |-> <<M, N>>,
        indptr |-> [r \in 1..(M + 1) |->
                       Cardinality({n \in 1..Len(row) : row[n] < r - 1})],
        indices |-> Take(col, ord),
        data |-> Take(data, ord)]

\* scipy: entry (r, c) of a csr matrix (duplicates inside a row are summed)
CsrEntry(m, r, c) ==
    LET ks == {k \in (m.indptr[r + 1] + 1)..m.indptr[r + 2] : m.indices[k] = c}
    IN SumSet(m.data, ks)

\* ------------------------------------------------- aroma/util/sparse.py
\* Mutant of CSRAssemblerInit: the duplicate mask compares the rows only.
CSRAssemblerInitRowMask(shape, row, col) ==
    LET order == StableOrder(Len(row), [i \in 1..Len(row), j \in 1..Len(row) |->
                     col[i] < col[j] \/ (col[i] = col[j] /\ row[i] < row[j])])
        srow == Take(row, order)
        scol == Take(col, order)
        mask == [k \in 1..Len(srow) |-> k = 1 \/ srow[k] # srow[k - 1]]
    IN IF Len(row) = 0 THEN Raise("ValueError")
       ELSE [kind |-> "CSRAssembler",
             row |-> MaskSelect(srow, mask),
             col |-> MaskSelect(scol, mask),
             order |-> order,
             inds |-> Nonzero(mask),
             shape |-> shape]

CSRAssemblerInit(shape, row, col) ==
    IF Len(shape) # 2 THEN Raise("AssertionError")
    ELSE IF Len(row) = 0 THEN Raise("ValueError")
    ELSE IF ~(MaxOf(row) < shape[1]) THEN Raise("AssertionError")
    ELSE IF ~(MaxOf(col) < shape[2]) THEN Raise("AssertionError")
    ELSE
    LET order == StableOrder(Len(row), [i \in 1..Len(row), j \in 1..Len(row) |->
                     col[i] < col[j] \/ (col[i] = col[j] /\ row[i] < row[j])])
        srow == Take(row, order)
        scol == Take(col, order)
        mask == [k \in 1..Len(srow) |->
                    k = 1 \/ srow[k] # srow[k - 1] \/ scol[k] # scol[k - 1]] \o << >>
    IN [kind |-> "CSRAssembler",
        row |-> MaskSelect(srow, mask),
        col |-> MaskSelect(scol, mask),
        order |-> order,
        inds |-> Nonzero(mask),
        shape |-> shape]

CSRAssemblerCall(self, data) ==
    IF \E k \in 1..Len(self.order) : self.order[k] > Len(data)
    THEN Raise("IndexError")
    ELSE
    LET red == ReduceAt(Take(data, self.order), self.inds)
    IN CooToCsr(self.shape[1], self.shape[2], self.row, self.col, red)

\* Mutant of VectorAssemblerInit: an empty index list gives an empty assembler.
VectorAssemblerInitAllowsEmpty(shape, inds) ==
    IF Len(shape) # 1 THEN Raise("AssertionError")
    ELSE IF Len(inds) = 0
    THEN [kind |-> "VectorAssembler", row |-> << >>, order |-> << >>,
          inds |-> << >>, shape |-> shape]
    ELSE IF ~(MaxOf(inds) < shape[1]) THEN Raise("AssertionError")
    ELSE
    LET order == StableOrder(Len(inds), [i \in 1..Len(inds), j \in 1..Len(inds) |->
                     inds[i] < inds[j]])
        sinds == Take(inds, order)
        mask == [k \in 1..Len(sinds) |-> k = 1 \/ sinds[k] # sinds[k - 1]]
    IN [kind |-> "VectorAssembler",
        row |-> MaskSelect(sinds, mask),
        order |-> order,
        inds |-> Nonzero(mask),
        shape |-> shape]

VectorAssemblerInit(shape, inds) ==
    IF Len(shape) # 1 THEN Raise("AssertionError")
    ELSE IF Len(inds) = 0 THEN Raise("ValueError")
    ELSE IF ~(MaxOf(inds) < shape[1]) THEN Raise("AssertionError")
    ELSE
    LET order == StableOrder(Len(inds), [i \in 1..Len(inds), j \in 1..Len(inds) |->
                     inds[i] < inds[j]])
        sinds == Take(inds, order)
        mask == [k \in 1..Len(sinds) |-> k = 1 \/ sinds[k] # sinds[k - 1]]
    IN [kind |-> "VectorAssembler",
        row |-> MaskSelect(sinds, mask),
        order |-> order,
        inds |-> Nonzero(mask),
        shape |-> shape]

VectorAssemblerCall(self, data) ==
    IF \E k \in 1..Len(self.order) : self.order[k] > Len(data)
    THEN Raise("IndexError")
    ELSE
    LET red == ReduceAt(Take(data, self.order), self.inds)
    IN NdArray(self.shape,
               [ix \in Indices(self.shape) |->
                   IF \E k \in 1..Len(self.row) : self.row[k] = ix[1]
                   THEN red[CHOOSE k \in 1..Len(self.row) : self.row[k] = ix[1]]
                   ELSE 0])

AssemblerCall(self, data) ==
    IF self.kind = "CSRAssembler" THEN CSRAssemblerCall(self, data)
    ELSE VectorAssemblerCall(self, data)

\* ------------------------------------- aroma/affine/integrands/__init__.py
\* A numpy scalar (the result of a sum over every axis).
Scalar(n) == [kind |-> "scalar", val |-> n]

\* Operands of contractions (vectors) and projections (sequences of rows) for
\* an axis of dimension n.
Ones(n) == [k \in 1..n |-> 1] \o << >>
Ramp(n) == [k \in 1..n |-> k] \o << >>
Unit(n) == [k \in 1..n |-> IF k = 1 THEN 1 ELSE 0] \o << >>
Identity(n) == [a \in 1..n |-> [k \in 1..n |-> IF a = k THEN 1 ELSE 0] \o << >>] \o << >>

\* The all-no-op contraction or projection spec of a given rank.
Trivial(rank) == [a \in 1..rank |-> NoneVal] \o << >>

\* Integrand.__init__ followed by ThinWrapperIntegrand.__init__.  id 0 marks
\* an object allocated by the call that returns it.
ThinWrapperInit(cls, obj) ==
    [kind |-> "Integrand", cls |-> cls, id |-> 0,
     attrs |-> {"_properties", "obj"}, props |-> << >>, obj |-> obj]

NumpyArrayIntegrandInit(obj) ==
    IF obj.kind = "ndarray" THEN ThinWrapperInit("NumpyArrayIntegrand", obj)
    ELSE ThinWrapperInit("NumpyArrayIntegrand",
                         NdArray(<< >>, [ix \in {<< >>} |-> obj.val]))

\* obj * cont with cont broadcast along axis i (axes are counted from 1 here)
MulAxis(obj, i, cont) ==
    NdArray(obj.shape, [ix \in Indices(obj.shape) |-> obj.val[ix] * cont[ix[i] + 1]])

RECURSIVE NumpyMulLoop(_, _, _)
NumpyMulLoop(obj, contraction, i) ==
    IF i > Len(contraction) THEN obj
    ELSE NumpyMulLoop(IF contraction[i] = NoneVal THEN obj
                      ELSE MulAxis(obj, i, contraction[i]),
                      contraction, i + 1)

\* Mutant of SumAxes: a sum over no axis hands back the array it was given.
SumAxesNoCopy(obj, axes) ==
    LET keep == Nonzero([a \in 1..Len(obj.shape) |-> a \notin axes] \o << >>)
        shape == Take(obj.shape, keep)
    IN IF axes = {} THEN obj
       ELSE IF keep = << >>
       THEN Scalar(SumSet(obj.val, Indices(obj.shape)))
       ELSE NdArray(shape,
                [jx \in Indices(shape) |->
                    SumSet(obj.val, {ix \in Indices(obj.shape) : Take(ix, keep) = jx})])

\* obj.sum(axes)
SumAxes(obj, axes) ==
    LET keep == Nonzero([a \in 1..Len(obj.shape) |-> a \notin axes] \o << >>)
        shape == Take(obj.shape, keep)
    IN IF keep = << >> /\ axes # {}
       THEN Scalar(SumSet(obj.val, Indices(obj.shape)))
       ELSE NdArray(shape,
                [jx \in Indices(shape) |->
                    SumSet(obj.val, {ix \in Indices(obj.shape) : Take(ix, keep) = jx})])

\* Mutant of Numpy_contract: the product with the contraction vectors is lost.
Numpy_contractNoMul(self, contraction) ==
    SumAxes(self.obj, {i \in 1..Len(contraction) : contraction[i] # NoneVal})

\* NumpyArrayIntegrand._contract
Numpy_contract(self, contraction) ==
    SumAxes(NumpyMulLoop(self.obj, contraction, 1),
            {i \in 1..Len(contraction) : contraction[i] # NoneVal})

NumpyGet(self, contraction) == Numpy_contract(self, contraction)

NumpyContract(self, contraction) ==
    NumpyArrayIntegrandInit(Numpy_contract(self, contraction))

\* Mutant of ProjectAxis: the sum over the projected axis runs over its first
\* position only.
ProjectAxisFirstOnly(obj, i, p) ==
    LET shape == [obj.shape EXCEPT ![i] = Len(p)]
    IN NdArray(shape,
           [ix \in Indices(shape) |->
               p[ix[i] + 1][1] * obj.val[[ix EXCEPT ![i] = 0]]])

\* One round of the loop of NumpyArrayIntegrand.project: axis i is replaced
\* by the rows of p.
ProjectAxis(obj, i, p) ==
    LET shape == [obj.shape EXCEPT ![i] = Len(p)]
        ms == 0..(obj.shape[i] - 1)
    IN NdArray(shape,
           [ix \in Indices(shape) |->
               SumSet([m \in ms |-> p[ix[i] + 1][m + 1] * obj.val[[ix EXCEPT ![i] = m]]],
                      ms)])

RECURSIVE NumpyProjectLoop(_, _, _)
NumpyProjectLoop(obj, projection, i) ==
    IF i > Len(projection) THEN obj
    ELSE NumpyProjectLoop(IF projection[i] = NoneVal THEN obj
                          ELSE ProjectAxis(obj, i, projection[i]),
                          projection, i + 1)

NumpyProject(self, projection) ==
    NumpyArrayIntegrandInit(NumpyProjectLoop(self.obj, projection, 1))

\* scipy: the row that holds stored entry k of a csr matrix
CsrRowOf(m, k) ==
    CHOOSE r \in 0..(m.shape[1] - 1) : m.indptr[r + 1] < k /\ k <= m.indptr[r + 2]

\* scipy: m.dot(v) for a csr matrix m and a vector v
CsrDot(m, v) ==
    NdArray(<<m.shape[1]>>,
        [ix \in Indices(<<m.shape[1]>>) |->
            SumSet([k \in 1..Len(m.data) |-> m.data[k] * v[m.indices[k] + 1]],
                   (m.indptr[ix[1] + 1] + 1)..m.indptr[ix[1] + 2])])

\* scipy: m.T.dot(v)
CsrTDot(m, v) ==
    NdArray(<<m.shape[2]>>,
        [ix \in Indices(<<m.shape[2]>>) |->
            SumSet([k \in 1..Len(m.data) |-> m.data[k] * v[CsrRowOf(m, k) + 1]],
                   {k \in 1..Len(m.data) : m.indices[k] = ix[1]})])

\* Mutant of CsrDotMatT: every column is computed from the first row of p.
CsrDotMatTFirstRow(m, p) ==
    NdArray(<<m.shape[1], Len(p)>>,
        [ix \in Indices(<<m.shape[1], Len(p)>>) |->
            SumSet([k \in 1..Len(m.data) |-> m.data[k] * p[1][m.indices[k] + 1]],
                   (m.indptr[ix[1] + 1] + 1)..m.indptr[ix[1] + 2])])

\* scipy: m.dot(p.T) for a dense matrix p (a sequence of rows)
CsrDotMatT(m, p) ==
    NdArray(<<m.shape[1], Len(p)>>,
        [ix \in Indices(<<m.shape[1], Len(p)>>) |->
            SumSet([k \in 1..Len(m.data) |-> m.data[k] * p[ix[2] + 1][m.indices[k] + 1]],
                   (m.indptr[ix[1] + 1] + 1)..m.indptr[ix[1] + 2])])

\* scipy: m.T.dot(p.T).T
CsrTDotMatTT(m, p) ==
    NdArray(<<Len(p), m.shape[2]>>,
        [ix \in Indices(<<Len(p), m.shape[2]>>) |->
            SumSet([k \in 1..Len(m.data) |-> m.data[k] * p[ix[1] + 1][CsrRowOf(m, k) + 1]],
                   {k \in 1..Len(m.data) : m.indices[k] = ix[2]})])

\* numpy: p.dot(a) for a dense matrix p (a sequence of rows) and an array a
\* of rank 1 or 2
MatDot(p, a) ==
    LET rows == 0..(a.shape[1] - 1)
    IN IF Len(a.shape) = 1
       THEN NdArray(<<Len(p)>>,
                [ix \in Indices(<<Len(p)>>) |->
                    SumSet([r \in rows |-> p[ix[1] + 1][r + 1] * a.val[<<r>>]], rows)])
       ELSE NdArray(<<Len(p), a.shape[2]>>,
                [ix \in Indices(<<Len(p), a.shape[2]>>) |->
                    SumSet([r \in rows |-> p[ix[1] + 1][r + 1] * a.val[<<r, ix[2]>>]],
                           rows)])

\* numpy: v.dot(a) for vectors v (a sequence) and a (an array of rank 1)
VecDot(v, a) ==
    Scalar(SumSet([r \in 0..(a.shape[1] - 1) |-> v[r + 1] * a.val[<<r>>]],
                  0..(a.shape[1] - 1)))

\* Mutant of ScipyGet: two operands are refused, as contract refuses them.
ScipyGetOneAxis(self, contraction) ==
    IF \A i \in 1..Len(contraction) : contraction[i] = NoneVal THEN self.obj
    ELSE IF Len(contraction) # 2 THEN Raise("ValueError")
    ELSE LET ca == contraction[1]
             cb == contraction[2]
         IN IF ca = NoneVal THEN CsrDot(self.obj, cb)
            ELSE IF cb = NoneVal THEN CsrTDot(self.obj, ca)
            ELSE Raise("AssertionError")

ScipyGet(self, contraction) ==
    IF \A i \in 1..Len(contraction) : contraction[i] = NoneVal THEN self.obj
    ELSE IF Len(contraction) # 2 THEN Raise("ValueError")
    ELSE LET ca == contraction[1]
             cb == contraction[2]
         IN IF ca = NoneVal THEN CsrDot(self.obj, cb)
            ELSE IF cb = NoneVal THEN CsrTDot(self.obj, ca)
            ELSE VecDot(ca, CsrDot(self.obj, cb))

\* Mutant of ScipyContract: both operands given are reduced to the scalar.
ScipyContractBilinear(self, contraction) ==
    IF Len(contraction) # 2 THEN Raise("AssertionError")
    ELSE LET ca == contraction[1]
             cb == contraction[2]
         IN IF ca = NoneVal /\ cb = NoneVal THEN self
            ELSE IF ~(ca = NoneVal \/ cb = NoneVal)
            THEN NumpyArrayIntegrandInit(VecDot(ca, CsrDot(self.obj, cb)))
            ELSE IF ca = NoneVal THEN NumpyArrayIntegrandInit(CsrDot(self.obj, cb))
            ELSE NumpyArrayIntegrandInit(CsrTDot(self.obj, ca))

\* Mutant of ScipyContract: the all-no-op spec yields a new wrapper of the
\* same matrix.
ScipyContractRewrap(self, contraction) ==
    IF Len(contraction) # 2 THEN Raise("AssertionError")
    ELSE LET ca == contraction[1]
             cb == contraction[2]
         IN IF ca = NoneVal /\ cb = NoneVal
            THEN ThinWrapperInit("ScipyArrayIntegrand", self.obj)
            ELSE IF ~(ca = NoneVal \/ cb = NoneVal) THEN Raise("AssertionError")
            ELSE IF ca = NoneVal THEN NumpyArrayIntegrandInit(CsrDot(self.obj, cb))
            ELSE NumpyArrayIntegrandInit(CsrTDot(self.obj, ca))

ScipyContract(self, contraction) ==
    IF Len(contraction) # 2 THEN Raise("AssertionError")
    ELSE LET ca == contraction[1]
             cb == contraction[2]
         IN IF ca = NoneVal /\ cb = NoneVal THEN self
            ELSE IF ~(ca = NoneVal \/ cb = NoneVal) THEN Raise("AssertionError")
            ELSE IF ca = NoneVal THEN NumpyArrayIntegrandInit(CsrDot(self.obj, cb))
            ELSE NumpyArrayIntegrandInit(CsrTDot(self.obj, ca))

ScipyProject(self, projection) ==
    IF \A i \in 1..Len(projection) : projection[i] = NoneVal THEN self
    ELSE IF Len(projection) # 2 THEN Raise("ValueError")
    ELSE LET pa == projection[1]
             pb == projection[2]
         IN IF pa = NoneVal THEN NumpyArrayIntegrandInit(CsrDotMatT(self.obj, pb))
            ELSE IF pb = NoneVal THEN NumpyArrayIntegrandInit(CsrTDotMatTT(self.obj, pa))
            ELSE NumpyArrayIntegrandInit(MatDot(pa, CsrDotMatT(self.obj, pb)))

ScipyArrayIntegrandInit(obj) == ThinWrapperInit("ScipyArrayIntegrand", obj)

\* Mutant of COOTensorInit: the assemblers for eliminating axis 1 and axis 2
\* are stored under each other's key.
COOTensorInitSwapped(shape, args) ==
    LET last == args[Len(args)]
        nz == Nonzero([n \in 1..Len(last) |-> last[n] # 0] \o << >>)
        indices == [a \in 1..3 |-> Take(args[a], nz)] \o << >>
        a1 == CSRAssemblerInit(<<shape[1], shape[3]>>, indices[1], indices[3])
        a2 == CSRAssemblerInit(<<shape[1], shape[2]>>, indices[1], indices[2])
        a12 == VectorAssemblerInit(<<shape[1]>>, indices[1])
    IN IF Len(nz) = 0 THEN Raise("ValueError")
       ELSE [kind |-> "Integrand", cls |-> "COOTensorIntegrand", id |-> 0,
             attrs |-> {"_properties", "shape", "ndim", "data", "indices", "assemblers"},
             props |-> << >>,
             shape |-> shape,
             indices |-> indices,
             data |-> Take(last, nz),
             assemblers |-> (<<1>> :> a2) @@ (<<2>> :> a1) @@ (<<1, 2>> :> a12)]

\* Mutant of COOTensorInit: entries with an exact zero value are kept.
COOTensorInitKeepZeros(shape, args) ==
    IF Len(shape) # 3 THEN Raise("AssertionError")
    ELSE IF Len(shape) # Len(args) - 1 THEN Raise("AssertionError")
    ELSE
    LET last == args[Len(args)]
        indices == [a \in 1..3 |-> args[a]] \o << >>
        a1 == CSRAssemblerInit(<<shape[1], shape[3]>>, indices[1], indices[3])
        a2 == CSRAssemblerInit(<<shape[1], shape[2]>>, indices[1], indices[2])
        a12 == VectorAssemblerInit(<<shape[1]>>, indices[1])
    IN IF Len(last) = 0 THEN Raise("ValueError")
       ELSE IF IsError(a1) THEN a1
       ELSE IF IsError(a2) THEN a2
       ELSE IF IsError(a12) THEN a12
       ELSE [kind |-> "Integrand", cls |-> "COOTensorIntegrand", id |-> 0,
             attrs |-> {"_properties", "shape", "ndim", "data", "indices", "assemblers"},
             props |-> << >>,
             shape |-> shape,
             indices |-> indices,
             data |-> last,
             assemblers |-> (<<1>> :> a1) @@ (<<2>> :> a2) @@ (<<1, 2>> :> a12)]

\* COOTensorIntegrand.__init__(shape, *args), args = <<i, j, k, data>>
COOTensorInit(shape, args) ==
    IF Len(shape) # 3 THEN Raise("AssertionError")
    ELSE IF Len(shape) # Len(args) - 1 THEN Raise("AssertionError")
    ELSE
    LET last == args[Len(args)]
        nz == Nonzero([n \in 1..Len(last) |-> last[n] # 0] \o << >>)
        indices == [a \in 1..3 |-> Take(args[a], nz)] \o << >>
        a1 == CSRAssemblerInit(<<shape[1], shape[3]>>, indices[1], indices[3])
        a2 == CSRAssemblerInit(<<shape[1], shape[2]>>, indices[1], indices[2])
        a12 == VectorAssemblerInit(<<shape[1]>>, indices[1])
    IN IF Len(nz) = 0 THEN Raise("ValueError")
       ELSE IF IsError(a1) THEN a1
       ELSE IF IsError(a2) THEN a2
       ELSE IF IsError(a12) THEN a12
       ELSE [kind |-> "Integrand", cls |-> "COOTensorIntegrand", id |-> 0,
             attrs |-> {"_properties", "shape", "ndim", "data", "indices", "assemblers"},
             props |-> << >>,
             shape |-> shape,
             indices |-> indices,
             data |-> Take(last, nz),
             assemblers |-> (<<1>> :> a1) @@ (<<2>> :> a2) @@ (<<1, 2>> :> a12)]

\* The loop "data *= c[self.indices[i]]" of COOTensorIntegrand._contract
RECURSIVE COOMulLoop(_, _, _, _)
COOMulLoop(data, indices, contraction, i) ==
    IF i > Len(contraction) THEN data
    ELSE COOMulLoop(IF contraction[i] = NoneVal THEN data
                    ELSE [n \in 1..Len(data) |->
                             data[n] * contraction[i][indices[i][n] + 1]] \o << >>,
                    indices, contraction, i + 1)

\* Mutant of COO_contract: an axis set without an assembler is summed on
\* demand instead of being refused.
COO_contractOnDemand(self, contraction) ==
    IF \A i \in 1..Len(contraction) : contraction[i] = NoneVal THEN self
    ELSE
    LET pos == Nonzero([i \in 1..Len(contraction) |-> contraction[i] # NoneVal] \o << >>)
        axes == [a \in 1..Len(pos) |-> pos[a] - 1] \o << >>
        data == COOMulLoop(self.data, self.indices, contraction, 1)
    IN IF axes = <<0, 1, 2>> \/ axes \notin DOMAIN self.assemblers
       THEN Scalar(SumSeq(data))
       ELSE AssemblerCall(self.assemblers[axes], data)

\* COOTensorIntegrand._contract
COO_contract(self, contraction) ==
    IF \A i \in 1..Len(contraction) : contraction[i] = NoneVal THEN self
    ELSE
    LET pos == Nonzero([i \in 1..Len(contraction) |-> contraction[i] # NoneVal] \o << >>)
        axes == [a \in 1..Len(pos) |-> pos[a] - 1] \o << >>
        data == COOMulLoop(self.data, self.indices, contraction, 1)
    IN IF axes = <<0, 1, 2>> THEN Scalar(SumSeq(data))
       ELSE IF axes \notin DOMAIN self.assemblers THEN Raise("KeyError")
       ELSE AssemblerCall(self.assemblers[axes], data)

\* COOTensorIntegrand.toarray: ravel axes 1 and 2, go through a coo_matrix
\* (which sums duplicates), reshape back
COOToarray(self) ==
    LET flat(j, k) == j * self.shape[3] + k
    IN NdArray(self.shape,
           [ix \in Indices(self.shape) |->
               SumSet(self.data,
                      {n \in 1..Len(self.data) :
                          /\ self.indices[1][n] = ix[1]
                          /\ flat(self.indices[2][n], self.indices[3][n])
                                 = flat(ix[2], ix[3])})])

COOGet(self, contraction) ==
    LET retval == COO_contract(self, contraction)
    IN IF retval.kind = "Integrand" /\ retval.cls = "COOTensorIntegrand"
       THEN COOToarray(retval)
       ELSE retval

\* ---- the registry: MetaIntegrand.__new__, Integrand.subclasses
\* A registered class: its name and the kinds of value its accepts() admits.
Class(name, accepts) == [name |-> name, accepts |-> accepts]

\* MetaIntegrand.__new__: Integrand.subclasses[name] = subclass, unless the
\* class is Integrand itself.  A dict keeps the position of a key it holds.
MetaIntegrandNew(registry, name, accepts) ==
    IF name = "Integrand" THEN registry
    ELSE IF \E i \in 1..Len(registry) : registry[i].name = name
    THEN [registry EXCEPT ![CHOOSE i \in 1..Len(registry) : registry[i].name = name]
                              = Class(name, accepts)]
    ELSE Append(registry, Class(name, accepts))

\* Integrand.subclasses once the module is imported: the class statements
\* in the order of the file
ModuleSubclasses ==
    MetaIntegrandNew(
      MetaIntegrandNew(
        MetaIntegrandNew(
          MetaIntegrandNew(
            MetaIntegrandNew(<< >>, "Integrand", {}),
            "ThinWrapperIntegrand", {}),
          "NumpyArrayIntegrand", {"ndarray", "scalar"}),
        "ScipyArrayIntegrand", {"csr"}),
      "COOTensorIntegrand", {})

\* isinstance(obj, Integrand)
IsIntegrand(obj) == obj.kind = "Integrand"

\* Integrand.get_subclass: the position of the first class that accepts obj
\* (0 stands for None)
RECURSIVE GetSubclassFrom(_, _, _)
GetSubclassFrom(registry, obj, i) ==
    IF i > Len(registry) THEN 0
    ELSE IF obj.kind \in registry[i].accepts THEN i
    ELSE GetSubclassFrom(registry, obj, i + 1)

\* Mutant of Get_subclass: the last class that accepts obj is returned.
Get_subclassLast(registry, obj) ==
    IF \E i \in 1..Len(registry) : obj.kind \in registry[i].accepts
    THEN CHOOSE i \in 1..Len(registry) :
            /\ obj.kind \in registry[i].accepts
            /\ \A j \in (i + 1)..Len(registry) : obj.kind \notin registry[j].accepts
    ELSE 0

Get_subclass(registry, obj) == GetSubclassFrom(registry, obj, 1)

\* Mutant of Acceptable: the isinstance test is missing.
AcceptableNoIsinstance(registry, obj) == Get_subclass(registry, obj) # 0

Acceptable(registry, obj) ==
    IsIntegrand(obj) \/ Get_subclass(registry, obj) # 0

\* subclass(obj): the constructor call at the end of Integrand.make
Construct(cls, obj) ==
    IF cls.name = "NumpyArrayIntegrand" THEN NumpyArrayIntegrandInit(obj)
    ELSE IF cls.name = "COOTensorIntegrand" THEN Raise("TypeError")
    ELSE ThinWrapperInit(cls.name, obj)

Make(registry, obj) ==
    IF IsIntegrand(obj) THEN obj
    ELSE IF ~Acceptable(registry, obj) THEN Raise("NotImplementedError")
    ELSE Construct(registry[Get_subclass(registry, obj)], obj)

COOContract(self, contraction) ==
    LET retval == COO_contract(self, contraction)
    IN IF IsError(retval) THEN retval ELSE Make(ModuleSubclasses, retval)

\* Mutant of COOProject: the data is not re-weighted by the row of pa.
COOProjectNoWeight(self, projection) ==
    IF \E i \in 1..Len(projection) : projection[i] = NoneVal
    THEN Raise("AssertionError")
    ELSE
    LET pa == projection[1]
        pb == projection[2]
        pc == projection[3]
        ass == CSRAssemblerInit(<<self.shape[2], self.shape[3]>>,
                                self.indices[2], self.indices[3])
        slice == MatDot(pb, CsrDotMatT(CSRAssemblerCall(ass, self.data), pc))
        shape == <<Len(pa), Len(pb), Len(pc)>>
    IN NumpyArrayIntegrandInit(
           NdArray(shape, [ix \in Indices(shape) |-> slice.val[<<ix[2], ix[3]>>]]))

\* Mutant of COOProject: operands that are None are taken to be the identity.
COOProjectPartial(self, projection) ==
    LET pa == IF projection[1] = NoneVal THEN Identity(self.shape[1]) ELSE projection[1]
        pb == IF projection[2] = NoneVal THEN Identity(self.shape[2]) ELSE projection[2]
        pc == IF projection[3] = NoneVal THEN Identity(self.shape[3]) ELSE projection[3]
        ass == CSRAssemblerInit(<<self.shape[2], self.shape[3]>>,
                                self.indices[2], self.indices[3])
        slice(i) ==
            LET data == [n \in 1..Len(self.data) |->
                            self.data[n] * pa[i + 1][self.indices[1][n] + 1]] \o << >>
            IN MatDot(pb, CsrDotMatT(CSRAssemblerCall(ass, data), pc))
        shape == <<Len(pa), Len(pb), Len(pc)>>
    IN NumpyArrayIntegrandInit(
           NdArray(shape, [ix \in Indices(shape) |->
                              slice(ix[1]).val[<<ix[2], ix[3]>>]]))

COOProject(self, projection) ==
    IF \E i \in 1..Len(projection) : projection[i] = NoneVal
    THEN Raise("AssertionError")
    ELSE IF Len(projection) # 3 THEN Raise("ValueError")
    ELSE
    LET pa == projection[1]
        pb == projection[2]
        pc == projection[3]
        P == Len(pa)
        ass == CSRAssemblerInit(<<self.shape[2], self.shape[3]>>,
                                self.indices[2], self.indices[3])
        slice(i) ==
            LET data == [n \in 1..Len(self.data) |->
                            self.data[n] * pa[i + 1][self.indices[1][n] + 1]] \o << >>
                mx == CSRAssemblerCall(ass, data)
            IN MatDot(pb, CsrDotMatT(mx, pc))
        shape == <<P, Len(pb), Len(pc)>>
    IN IF IsError(ass) THEN ass
       ELSE NumpyArrayIntegrandInit(
                NdArray(shape, [ix \in Indices(shape) |->
                                   slice(ix[1]).val[<<ix[2], ix[3]>>]]))

\* ---- Integrand.prop
\* Integrand.prop(*args, **kwargs): what it returns.  kwargs is a function
\* from the keyword names to their values.
PropRet(self, args, kwargs) ==
    IF Len(args) > 0
    THEN IF "_properties" \notin self.attrs THEN Raise("AttributeError")
         ELSE IF \E k \in 1..Len(args) :
                    args[k] \notin DOMAIN self.props /\ args[k] \notin DOMAIN kwargs
         THEN Raise("KeyError")
         ELSE LET values == [k \in 1..Len(args) |->
                                IF args[k] \in DOMAIN self.props
                                THEN self.props[args[k]]
                                ELSE kwargs[args[k]]] \o << >>
              IN IF Len(args) = 1 THEN values[1]
                 ELSE [kind |-> "list", items |-> values]
    ELSE IF DOMAIN kwargs # {} /\ "_properties" \notin self.attrs
    THEN Raise("AttributeError")
    ELSE self

\* Mutant of PropSelf: a supplied value replaces the stored one.
PropSelfOverwrite(self, args, kwargs) ==
    IF Len(args) > 0 \/ "_properties" \notin self.attrs THEN self
    ELSE [self EXCEPT !.props =
             [key \in DOMAIN self.props \cup DOMAIN kwargs |->
                 IF key \in DOMAIN kwargs THEN kwargs[key] ELSE self.props[key]]]

\* Mutant of PropSelf: a read stores the defaults it used.
PropSelfStoresDefault(self, args, kwargs) ==
    IF "_properties" \notin self.attrs THEN self
    ELSE [self EXCEPT !.props =
             [key \in DOMAIN self.props \cup DOMAIN kwargs |->
                 IF key \in DOMAIN self.props THEN self.props[key] ELSE kwargs[key]]]

\* Integrand.prop(*args, **kwargs): the integrand after the call.
PropSelf(self, args, kwargs) ==
    IF Len(args) > 0 \/ "_properties" \notin self.attrs THEN self
    ELSE [self EXCEPT !.props =
             [key \in DOMAIN self.props \cup DOMAIN kwargs |->
                 IF key \in DOMAIN self.props THEN self.props[key] ELSE kwargs[key]]]

\* ---- persistence.  A group is [attrs, items]; util.to_dataset,
\* util.from_dataset and util.find_subclass are not part of the sources at
\* hand and follow the persistence contract: a dataset holds the value given.
ToDataset(value) == [kind |-> "dataset", value |-> value]
FromDataset(ds) == ds.value
\* dataset[:]
H5Slice(ds) == ds.value
FindSubclass(names, type) == IF type \in names THEN type ELSE "None"

Group(attrs, items) == [kind |-> "group", attrs |-> attrs, items |-> items]

\* Integrand.write_props: the 'properties' sub-group
WriteProps(self) ==
    Group(<< >>, [key \in DOMAIN self.props |-> ToDataset(self.props[key])])

\* Integrand.read_props
ReadProps(grp) ==
    [key \in DOMAIN grp.items.properties.items |->
        FromDataset(grp.items.properties.items[key])]

\* Mutant of ThinWrapperWrite: the type attribute names the base class.
ThinWrapperWriteBaseType(self) ==
    Group([type |-> "ThinWrapperIntegrand"],
          [data |-> ToDataset(self.obj), properties |-> WriteProps(self)])

\* ThinWrapperIntegrand.write: the sub-group it returns
ThinWrapperWrite(self) ==
    IF "_properties" \notin self.attrs THEN Raise("AttributeError")
    ELSE Group([type |-> self.cls],
               [data |-> ToDataset(self.obj), properties |-> WriteProps(self)])

\* Mutant of ThinWrapperRead: a group without 'properties' is read as an
\* integrand without metadata.
ThinWrapperReadLenient(grp) ==
    IF "type" \notin DOMAIN grp.attrs THEN Raise("KeyError")
    ELSE LET cls == FindSubclass({"NumpyArrayIntegrand", "ScipyArrayIntegrand"},
                                 grp.attrs.type)
         IN IF cls = "None" THEN Raise("AttributeError")
            ELSE IF "data" \notin DOMAIN grp.items THEN Raise("KeyError")
            ELSE [kind |-> "Integrand", cls |-> cls, id |-> 0,
                  attrs |-> {"obj", "_properties"},
                  props |-> IF "properties" \in DOMAIN grp.items
                            THEN ReadProps(grp) ELSE << >>,
                  obj |-> FromDataset(grp.items.data)]

\* ThinWrapperIntegrand.read
ThinWrapperRead(grp) ==
    IF "type" \notin DOMAIN grp.attrs THEN Raise("KeyError")
    ELSE LET cls == FindSubclass({"NumpyArrayIntegrand", "ScipyArrayIntegrand"},
                                 grp.attrs.type)
         IN IF cls = "None" THEN Raise("AttributeError")
            ELSE IF "data" \notin DOMAIN grp.items THEN Raise("KeyError")
            ELSE IF "properties" \notin DOMAIN grp.items THEN Raise("KeyError")
            ELSE [kind |-> "Integrand", cls |-> cls, id |-> 0,
                  attrs |-> {"obj", "_properties"},
                  props |-> ReadProps(grp),
                  obj |-> FromDataset(grp.items.data)]

\* str(s) and int(s) for an axis number, ','.join and split(',') for a key.
\* A string is a sequence of characters.
Digits == <<"0", "1", "2">>
Str(n) == Digits[n + 1]
ParseInt(ch) == (CHOOSE d \in 1..Len(Digits) : Digits[d] = ch) - 1
\* Mutant of JoinKey: the group is named by the first axis of the pattern.
JoinKeyFirst(key) == <<Str(key[1])>>

RECURSIVE JoinKey(_)
JoinKey(key) ==
    IF Len(key) = 0 THEN << >>
    ELSE IF Len(key) = 1 THEN <<Str(key[1])>>
    ELSE <<Str(key[1]), ",">> \o JoinKey(Tail(key))
RECURSIVE SplitKey(_)
SplitKey(name) ==
    IF Len(name) = 0 THEN << >>
    ELSE IF Head(name) = "," THEN SplitKey(Tail(name))
    ELSE <<ParseInt(Head(name))>> \o SplitKey(Tail(name))

\* CSRAssembler.write / VectorAssembler.write into a group
AssemblerWrite(self) ==
    IF self.kind = "CSRAssembler"
    THEN Group([shape |-> self.shape, type |-> "CSRAssembler"],
               [row |-> ToDataset(self.row), col |-> ToDataset(self.col),
                order |-> ToDataset(self.order), inds |-> ToDataset(self.inds)])
    ELSE Group([shape |-> self.shape, type |-> "VectorAssembler"],
               [row |-> ToDataset(self.row),
                order |-> ToDataset(self.order), inds |-> ToDataset(self.inds)])

\* getattr(util, grp.attrs['type']).read(grp)
AssemblerRead(grp) ==
    IF "type" \notin DOMAIN grp.attrs THEN Raise("KeyError")
    ELSE IF grp.attrs.type = "CSRAssembler"
    THEN IF ~({"row", "col", "order", "inds"} \subseteq DOMAIN grp.items)
              \/ "shape" \notin DOMAIN grp.attrs
         THEN Raise("KeyError")
         ELSE [kind |-> "CSRAssembler",
               row |-> H5Slice(grp.items.row), col |-> H5Slice(grp.items.col),
               order |-> H5Slice(grp.items.order), inds |-> H5Slice(grp.items.inds),
               shape |-> grp.attrs.shape]
    ELSE IF grp.attrs.type = "VectorAssembler"
    THEN IF ~({"row", "order", "inds"} \subseteq DOMAIN grp.items)
              \/ "shape" \notin DOMAIN grp.attrs
         THEN Raise("KeyError")
         ELSE [kind |-> "VectorAssembler",
               row |-> H5Slice(grp.items.row),
               order |-> H5Slice(grp.items.order), inds |-> H5Slice(grp.items.inds),
               shape |-> grp.attrs.shape]
    ELSE Raise("AttributeError")

\* COOTensorIntegrand.write: the sub-group it returns
COOWrite(self) ==
    LET names == {JoinKey(key) : key \in DOMAIN self.assemblers}
        assemblers ==
            Group(<< >>,
                  [name \in names |->
                      AssemblerWrite(self.assemblers[
                          CHOOSE key \in DOMAIN self.assemblers : JoinKey(key) = name])])
        datagrp ==
            Group([shape |-> self.shape],
                  [data |-> ToDataset(self.data),
                   assemblers |-> assemblers]
                  @@ ("indices-i" :> ToDataset(self.indices[1]))
                  @@ ("indices-j" :> ToDataset(self.indices[2]))
                  @@ ("indices-k" :> ToDataset(self.indices[3])))
    IN Group([type |-> "COOTensorIntegrand"], [data |-> datagrp])

\* COOTensorIntegrand.read
COORead(grp) ==
    IF "data" \notin DOMAIN grp.items THEN Raise("KeyError")
    ELSE
    LET datagrp == grp.items.data
    IN IF ~({"indices-i", "indices-j", "indices-k", "data", "assemblers"}
               \subseteq DOMAIN datagrp.items)
          \/ "shape" \notin DOMAIN datagrp.attrs
       THEN Raise("KeyError")
       ELSE
       LET grps == datagrp.items.assemblers.items
           read == [name \in DOMAIN grps |-> AssemblerRead(grps[name])]
       IN IF \E name \in DOMAIN grps : IsError(read[name])
          THEN read[CHOOSE name \in DOMAIN grps : IsError(read[name])]
          ELSE [kind |-> "Integrand", cls |-> "COOTensorIntegrand", id |-> 0,
                attrs |-> {"indices", "data", "shape", "assemblers"},
                props |-> << >>,
                shape |-> datagrp.attrs.shape,
                indices |-> << H5Slice(datagrp.items["indices-i"]),
                               H5Slice(datagrp.items["indices-j"]),
                               H5Slice(datagrp.items["indices-k"]) >>,
                data |-> H5Slice(datagrp.items.data),
                assemblers |->
                    [key \in {SplitKey(name) : name \in DOMAIN grps} |->
                        read[CHOOSE name \in DOMAIN grps : SplitKey(name) = key]]]

\* x.write(group, name): the sub-group written
IntegrandWrite(self) ==
    IF self.cls = "COOTensorIntegrand" THEN COOWrite(self) ELSE ThinWrapperWrite(self)

\* Integrand.read
IntegrandRead(grp) ==
    IF "type" \notin DOMAIN grp.attrs THEN Raise("KeyError")
    ELSE LET subclass == FindSubclass({ModuleSubclasses[i].name :
                                          i \in 1..Len(ModuleSubclasses)},
                                      grp.attrs.type)
         IN IF subclass = "None" THEN Raise("AttributeError")
            ELSE IF subclass = "COOTensorIntegrand" THEN COORead(grp)
            ELSE ThinWrapperRead(grp)

\* ---- dispatch on the concrete class
IntegrandGet(self, contraction) ==
    IF self.cls = "NumpyArrayIntegrand" THEN NumpyGet(self, contraction)
    ELSE IF self.cls = "ScipyArrayIntegrand" THEN ScipyGet(self, contraction)
    ELSE COOGet(self, contraction)

IntegrandContract(self, contraction) ==
    IF self.cls = "NumpyArrayIntegrand" THEN NumpyContract(self, contraction)
    ELSE IF self.cls = "ScipyArrayIntegrand" THEN ScipyContract(self, contraction)
    ELSE COOContract(self, contraction)

IntegrandProject(self, projection) ==
    IF self.cls = "NumpyArrayIntegrand" THEN NumpyProject(self, projection)
    ELSE IF self.cls = "ScipyArrayIntegrand" THEN ScipyProject(self, projection)
    ELSE COOProject(self, projection)

\* len(self.shape) for the thin wrappers, 3 for the COO tensor
Rank(self) ==
    IF self.cls = "COOTensorIntegrand" THEN 3
    ELSE IF self.cls = "ScipyArrayIntegrand" THEN 2
    ELSE Len(self.obj.shape)

\* x.get(all-no-op)
GetTrivial(self) == IntegrandGet(self, Trivial(Rank(self)))

\* The entries of a returned value, whatever its representation.
DenseOf(v) ==
    IF v.kind = "csr"
    THEN [shape |-> v.shape,
          val |-> [ix \in Indices(v.shape) |-> CsrEntry(v, ix[1], ix[2])]]
    ELSE IF v.kind = "scalar"
    THEN [shape |-> << >>, val |-> [ix \in {<< >>} |-> v.val]]
    ELSE [shape |-> v.shape, val |-> [ix \in Indices(v.shape) |-> v.val[ix]]]

\* ------------------------------------------------------------- SpecAsm
\* Assemblers built once from a coordinate list and called with data vectors.
AsmShape2 == <<2, 3>>
AsmShape1 == <<3>>
AsmVals == {1, 2}
\* index arrays of one length, one per axis of the shape, coordinates in range
CoordArrays(shape, maxlen) ==
    UNION {{c \in [1..Len(shape) -> [1..n -> 0..MaxOrZero(shape)]] :
               \A a \in 1..Len(shape) : \A k \in 1..n : c[a][k] < shape[a]} :
           n \in 0..maxlen}

AsmBuild(c) ==
    IF Len(c) = 2 THEN CSRAssemblerInit(AsmShape2, c[1], c[2])
    ELSE VectorAssemblerInit(AsmShape1, c[1])

InitAsm ==
    /\ coords \in CoordArrays(AsmShape2, MaxNnz) \cup CoordArrays(AsmShape1, MaxNnz)
    /\ asm = AsmBuild(coords)
    /\ asmCall = << >>
    /\ asmRet = Idle
    /\ ThinIdle /\ CooIdle /\ IoIdle /\ PropIdle /\ RegIdle
    /\ OpsIdle /\ LazyIdle /\ ShareIdle /\ RestIdle

\* assembler(data) on a constructed assembler
AsmCallAction ==
    /\ ~IsError(asm)
    /\ \E data \in [1..Len(coords[1]) -> AsmVals] :
          /\ asmCall' = data
          /\ asmRet' = AssemblerCall(asm, data)
    /\ UNCHANGED <<coords, asm, thinVars, cooVars, ioVars, propVars, regVars,
                 opsVars, lazyVars, shareVars, restVars>>

NextAsm == AsmCallAction
SpecAsm == InitAsm /\ [][NextAsm]_vars

\* Entry ix of a returned matrix or vector.
EntryOf(v, ix) == IF v.kind = "csr" THEN CsrEntry(v, ix[1], ix[2]) ELSE v.val[ix]

\* The positions of the contribution list that lie at coordinate ix.
ContributionsAt(c, ix) ==
    {k \in 1..Len(c[1]) : \A a \in 1..Len(c) : c[a][k] = ix[a]}

\* C1: an assembler built from a coordinate list (duplicates allowed) and
\* called with a data vector of the same length returns a matrix/vector whose
\* entry at every coordinate is the sum of the data contributed there (zero
\* where nothing was contributed), and building and calling it with the
\* contribution list permuted in any way returns the same entries.
C1_AssemblerSumsDuplicates ==
    asmRet.kind # "idle" =>
        /\ asmRet.kind \in {"csr", "ndarray"}
        /\ asmRet.shape = asm.shape
        /\ \A ix \in Indices(asm.shape) :
              EntryOf(asmRet, ix) = SumSet(asmCall, ContributionsAt(coords, ix))
        /\ \A p \in Permutations(1..Len(asmCall)) :
              LET pc == [a \in 1..Len(coords) |-> Take(coords[a], p)]
                  pr == AssemblerCall(AsmBuild(pc), Take(asmCall, p))
              IN \A ix \in Indices(asm.shape) : EntryOf(pr, ix) = EntryOf(asmRet, ix)

\* C1 witness: a CSR assembler called on three contributions, two of them at
\* the same coordinate with different values, and a coordinate left empty.
C1_Witness ==
    /\ asmRet.kind = "csr"
    /\ Len(asmCall) = 3
    /\ \E j, k \in 1..3 :
          /\ j < k
          /\ coords[1][j] = coords[1][k] /\ coords[2][j] = coords[2][k]
          /\ asmCall[j] # asmCall[k]
    /\ \E ix \in Indices(asm.shape) : ContributionsAt(coords, ix) = {}
    /\ \E ix \in Indices(asm.shape) : Cardinality(ContributionsAt(coords, ix)) = 1

\* ------------------------------------------------------------ SpecThin
\* One matrix held densely and sparsely; one operation applied to both.
ThinShapes == {<<2, 2>>, <<2, 3>>}

\* Weight vectors of a contraction along an axis of dimension n.
WeightVectors(n) == {Ones(n), Ramp(n), Unit(n)}

\* The contraction specs of a shape: per axis None or a vector of its length.
ContractionSpecs(shape) ==
    {c \in [1..Len(shape) -> {NoneVal} \cup UNION {WeightVectors(shape[a]) : a \in 1..Len(shape)}] :
        \A a \in 1..Len(shape) : c[a] = NoneVal \/ Len(c[a]) = shape[a]}

\* Projection matrices (sequences of rows) onto an axis of dimension n.
ProjMatrices(n) == {<<Ramp(n)>>, <<Unit(n), Ramp(n)>>, Identity(n)}

\* The projection specs of a shape: per axis None or a matrix with as many
\* columns as the axis is long.
ProjectionSpecs(shape) ==
    {p \in [1..Len(shape) -> {NoneVal} \cup UNION {ProjMatrices(shape[a]) : a \in 1..Len(shape)}] :
        \A a \in 1..Len(shape) : p[a] = NoneVal \/ Len(p[a][1]) = shape[a]}

NonTrivial(spec) == {a \in 1..Len(spec) : spec[a] # NoneVal}

\* sp.csr_matrix(a) for a dense matrix a: its nonzero entries, row by row
CsrFromDense(a) ==
    LET M == a.shape[1]
        N == a.shape[2]
        r(q) == (q - 1) \div N
        c(q) == (q - 1) % N
        nz == Nonzero([q \in 1..(M * N) |-> a.val[<<r(q), c(q)>>] # 0] \o << >>)
    IN CooToCsr(M, N,
                [k \in 1..Len(nz) |-> r(nz[k])] \o << >>,
                [k \in 1..Len(nz) |-> c(nz[k])] \o << >>,
                [k \in 1..Len(nz) |-> a.val[<<r(nz[k]), c(nz[k])>>]] \o << >>)

InitThin ==
    /\ \E shape \in ThinShapes : \E val \in [Indices(shape) -> Vals] :
          /\ dense = [NumpyArrayIntegrandInit(NdArray(shape, val)) EXCEPT !.id = 1]
          /\ sparse = [ScipyArrayIntegrandInit(CsrFromDense(NdArray(shape, val)))
                          EXCEPT !.id = 2]
    /\ thinCall = NoCall
    /\ thinRet = Idle
    /\ AsmIdle /\ CooIdle /\ IoIdle /\ PropIdle /\ RegIdle
    /\ OpsIdle /\ LazyIdle /\ ShareIdle /\ RestIdle

\* x.contract(c) on the dense and on the sparse integrand
ThinContract ==
    /\ thinCall = NoCall
    /\ \E c \in ContractionSpecs(dense.obj.shape) :
          /\ thinCall' = [op |-> "contract", arg |-> c]
          /\ thinRet' = [dense |-> NumpyContract(dense, c),
                         sparse |-> ScipyContract(sparse, c)]
    /\ UNCHANGED <<dense, sparse, asmVars, cooVars, ioVars, propVars, regVars,
                 opsVars, lazyVars, shareVars, restVars>>

\* x.project(p) on the dense and on the sparse integrand
ThinProject ==
    /\ thinCall = NoCall
    /\ \E p \in ProjectionSpecs(dense.obj.shape) :
          /\ thinCall' = [op |-> "project", arg |-> p]
          /\ thinRet' = [dense |-> NumpyProject(dense, p),
                         sparse |-> ScipyProject(sparse, p)]
    /\ UNCHANGED <<dense, sparse, asmVars, cooVars, ioVars, propVars, regVars,
                   opsVars, lazyVars, shareVars, restVars>>

NextThin == ThinContract \/ ThinProject
SpecThin == InitThin /\ [][NextThin]_vars

\* dense.contract(c).get(trivial) and sparse.contract(c).get(trivial) both
\* return, and return the same entries
ContractAgrees ==
    /\ ~IsError(thinRet.dense)
    /\ ~IsError(thinRet.sparse)
    /\ DenseOf(GetTrivial(thinRet.dense)) = DenseOf(GetTrivial(thinRet.sparse))

\* C3 as stated: for a rank-2 tensor held densely and sparsely and ANY
\* contraction spec c (no axis, the row axis, the column axis, or both),
\* dense.contract(c).get(trivial) equals sparse.contract(c).get(trivial).
C3_AnyContractionAgrees ==
    thinCall.op = "contract" => ContractAgrees

\* C3 (amended): the same for every contraction spec with at most one
\* non-trivial operand; with both operands non-trivial the dense integrand
\* returns the scalar while the sparse one raises.
C3_SingleAxisContractionAgrees ==
    thinCall.op = "contract" =>
        IF Cardinality(NonTrivial(thinCall.arg)) <= 1
        THEN ContractAgrees
        ELSE ~IsError(thinRet.dense) /\ IsError(thinRet.sparse)

\* C3 witness: the row axis of a non-symmetric matrix with a zero entry was
\* contracted with a non-constant vector, giving a non-constant vector.
C3_Witness ==
    /\ thinCall.op = "contract"
    /\ NonTrivial(thinCall.arg) = {1}
    /\ thinCall.arg[1] = Ramp(2)
    /\ dense.obj.shape = <<2, 3>>
    /\ \E ix \in Indices(dense.obj.shape) : dense.obj.val[ix] = 0
    /\ thinRet.sparse.kind = "Integrand"
    /\ thinRet.sparse.obj.val[<<0>>] # thinRet.sparse.obj.val[<<1>>]

\* Entry (r, c) of the matrix the dense integrand wraps.
ThinEntry(r, c) == dense.obj.val[<<r, c>>]
ThinRows == 0..(dense.obj.shape[1] - 1)
ThinCols == 0..(dense.obj.shape[2] - 1)

\* C13: ScipyArrayIntegrand.contract with both operands non-trivial fails
\* with an error; with exactly one it returns a dense vector, the transpose
\* of the matrix times the vector when the row axis is contracted and the
\* matrix times the vector when the column axis is contracted.
C13_ScipyContractOneAxis ==
    thinCall.op = "contract" =>
        LET ca == thinCall.arg[1]
            cb == thinCall.arg[2]
            ret == thinRet.sparse
        IN /\ NonTrivial(thinCall.arg) = {1, 2} => IsError(ret)
           /\ NonTrivial(thinCall.arg) = {1} =>
                /\ ret.kind = "Integrand"
                /\ ret.cls = "NumpyArrayIntegrand"
                /\ ret.obj.shape = <<dense.obj.shape[2]>>
                /\ \A c \in ThinCols :
                      ret.obj.val[<<c>>] = SumSet([r \in ThinRows |-> ThinEntry(r, c) * ca[r + 1]], ThinRows)
           /\ NonTrivial(thinCall.arg) = {2} =>
                /\ ret.kind = "Integrand"
                /\ ret.cls = "NumpyArrayIntegrand"
                /\ ret.obj.shape = <<dense.obj.shape[1]>>
                /\ \A r \in ThinRows :
                      ret.obj.val[<<r>>] = SumSet([c \in ThinCols |-> ThinEntry(r, c) * cb[c + 1]], ThinCols)

\* C13 witness: both axes of a matrix with a nonzero entry were contracted
\* and the sparse integrand refused, while the dense one gave a nonzero
\* scalar.
C13_Witness ==
    /\ thinCall.op = "contract"
    /\ NonTrivial(thinCall.arg) = {1, 2}
    /\ thinRet.sparse = Raise("AssertionError")
    /\ thinRet.dense.kind = "Integrand"
    /\ thinRet.dense.obj.val[<< >>] # 0

\* C16: ScipyArrayIntegrand.project returns the integrand itself when both
\* operands are no-op, M*Pb^T with only Pb, Pa*M with only Pa and Pa*M*Pb^T
\* with both, and in every case the entries NumpyArrayIntegrand.project gives
\* on the dense form of M.
C16_ScipyProjectSandwich ==
    thinCall.op = "project" =>
        LET pa == IF thinCall.arg[1] = NoneVal THEN Identity(dense.obj.shape[1])
                  ELSE thinCall.arg[1]
            pb == IF thinCall.arg[2] = NoneVal THEN Identity(dense.obj.shape[2])
                  ELSE thinCall.arg[2]
            ret == thinRet.sparse
            out == DenseOf(GetTrivial(ret))
        IN /\ ~IsError(ret)
           /\ NonTrivial(thinCall.arg) = {} => ret = sparse
           /\ NonTrivial(thinCall.arg) # {} => ret.cls = "NumpyArrayIntegrand" /\ ret.id = 0
           /\ out.shape = <<Len(pa), Len(pb)>>
           /\ \A ix \in Indices(out.shape) :
                 out.val[ix] =
                    SumSet([rc \in ThinRows \X ThinCols |->
                               pa[ix[1] + 1][rc[1] + 1] * ThinEntry(rc[1], rc[2]) * pb[ix[2] + 1][rc[2] + 1]],
                           ThinRows \X ThinCols)
           /\ out = DenseOf(GetTrivial(thinRet.dense))

\* C16 witness: a 2x3 matrix with a zero entry was projected on both sides,
\* with two rows on the left and one on the right, to a matrix with two
\* different entries.
C16_Witness ==
    /\ thinCall.op = "project"
    /\ dense.obj.shape = <<2, 3>>
    /\ \E ix \in Indices(dense.obj.shape) : dense.obj.val[ix] = 0
    /\ NonTrivial(thinCall.arg) = {1, 2}
    /\ thinRet.sparse.kind = "Integrand"
    /\ thinRet.sparse.obj.shape = <<2, 1>>
    /\ thinRet.sparse.obj.val[<<0, 0>>] # thinRet.sparse.obj.val[<<1, 0>>]

\* ------------------------------------------------------------- SpecCOO
\* One COOTensorIntegrand is constructed; one operation is applied to it.
CooShapes == {<<2, 2, 2>>, <<1, 2, 3>>}

InitCOO ==
    /\ \E shape \in CooShapes : \E c \in CoordArrays(shape, MaxCooNnz) :
          \E data \in [1..Len(c[1]) -> Vals] :
             /\ cooArgs = [shape |-> shape, args |-> c \o <<data>>]
             /\ coo = LET made == COOTensorInit(shape, c \o <<data>>)
                      IN IF IsError(made) THEN made ELSE [made EXCEPT !.id = 1]
    /\ cooCall = NoCall
    /\ cooRet = Idle
    /\ AsmIdle /\ ThinIdle /\ IoIdle /\ PropIdle /\ RegIdle
    /\ OpsIdle /\ LazyIdle /\ ShareIdle /\ RestIdle

\* coo.get(c)
CooGet ==
    /\ ~IsError(coo)
    /\ cooCall = NoCall
    /\ \E c \in ContractionSpecs(coo.shape) :
          /\ cooCall' = [op |-> "get", arg |-> c]
          /\ cooRet' = COOGet(coo, c)
    /\ UNCHANGED <<cooArgs, coo, asmVars, thinVars, ioVars, propVars, regVars,
                 opsVars, lazyVars, shareVars, restVars>>

\* coo.project(p)
CooProject ==
    /\ ~IsError(coo)
    /\ cooCall = NoCall
    /\ \E p \in ProjectionSpecs(coo.shape) :
          /\ cooCall' = [op |-> "project", arg |-> p]
          /\ cooRet' = COOProject(coo, p)
    /\ UNCHANGED <<cooArgs, coo, asmVars, thinVars, ioVars, propVars, regVars,
                 opsVars, lazyVars, shareVars, restVars>>

NextCOO == CooGet \/ CooProject
SpecCOO == InitCOO /\ [][NextCOO]_vars

\* The dense tensor of a COOTensorIntegrand: duplicate coordinates summed.
CooDense(self) ==
    NdArray(self.shape,
        [ix \in Indices(self.shape) |->
            SumSet(self.data,
                   {n \in 1..Len(self.data) : \A a \in 1..3 : self.indices[a][n] = ix[a]})])

\* The axes, numbered from 0 as in the source, that a spec acts on.
AxesOf(spec) == {a - 1 : a \in NonTrivial(spec)}

\* C2: for every COOTensorIntegrand T and every contraction whose non-trivial
\* axes are {}, {1}, {2}, {1,2} or {0,1,2}, T.get(contraction) has the shape
\* and the entries of NumpyArrayIntegrand.get(contraction) on the dense tensor
\* in which the duplicate coordinates of T are summed.
C2_CooGetMatchesDense ==
    (cooCall.op = "get" /\ AxesOf(cooCall.arg) \in {{}, {1}, {2}, {1, 2}, {0, 1, 2}}) =>
        /\ ~IsError(cooRet)
        /\ DenseOf(cooRet)
             = DenseOf(NumpyGet(NumpyArrayIntegrandInit(CooDense(coo)), cooCall.arg))

\* C2 witness: axis 2 alone was eliminated from a tensor with two entries at
\* one coordinate, with a non-constant vector; the result is a sparse matrix
\* with a single stored entry.
C2_Witness ==
    /\ cooCall.op = "get"
    /\ AxesOf(cooCall.arg) = {2}
    /\ cooCall.arg[3] = Ramp(coo.shape[3])
    /\ Len(coo.data) = 2
    /\ \A a \in 1..3 : coo.indices[a][1] = coo.indices[a][2]
    /\ coo.data[1] # coo.data[2]
    /\ cooRet.kind = "csr"
    /\ Len(cooRet.data) = 1

\* C4: for every COOTensorIntegrand T and projection matrices Pa, Pb, Pc all
\* present, T.project returns a dense integrand of shape (r0, r1, r2) with
\* entry [a,b,c] = sum over i,j,k of Pa[a,i]*Pb[b,j]*Pc[c,k]*T[i,j,k], which
\* is also what NumpyArrayIntegrand.project returns on the dense form of T.
C4_CooProjectMatchesDense ==
    (cooCall.op = "project" /\ AxesOf(cooCall.arg) = {0, 1, 2}) =>
        LET pa == cooCall.arg[1]
            pb == cooCall.arg[2]
            pc == cooCall.arg[3]
            T == CooDense(coo)
            shape == <<Len(pa), Len(pb), Len(pc)>>
            term(ix) == [jx \in Indices(coo.shape) |->
                            pa[ix[1] + 1][jx[1] + 1] * pb[ix[2] + 1][jx[2] + 1]
                                * pc[ix[3] + 1][jx[3] + 1] * T.val[jx]]
        IN /\ ~IsError(cooRet)
           /\ cooRet.kind = "Integrand"
           /\ cooRet.cls = "NumpyArrayIntegrand"
           /\ cooRet.obj.shape = shape
           /\ \A ix \in Indices(shape) :
                 cooRet.obj.val[ix] = SumSet(term(ix), Indices(coo.shape))
           /\ DenseOf(cooRet.obj)
                = DenseOf(NumpyProject(NumpyArrayIntegrandInit(T), cooCall.arg).obj)

\* C4 witness: a tensor with a duplicated coordinate was projected with a
\* two-row matrix on axis 0 and one-row matrices on axes 1 and 2.
C4_Witness ==
    /\ cooCall.op = "project"
    /\ Len(coo.data) = 2
    /\ \A a \in 1..3 : coo.indices[a][1] = coo.indices[a][2]
    /\ cooRet.kind = "Integrand"
    /\ cooRet.obj.shape = <<2, 1, 1>>
    /\ cooRet.obj.val[<<0, 0, 0>>] # cooRet.obj.val[<<1, 0, 0>>]

\* C12: COOTensorIntegrand.project fails with an error, and returns no
\* partial result, whenever at least one of the three operands is None, all
\* three being None included.
C12_CooProjectNeedsAllOperands ==
    (cooCall.op = "project" /\ AxesOf(cooCall.arg) # {0, 1, 2}) =>
        cooRet = Raise("AssertionError")

\* C12 witness: a projection with only the operand of axis 1 missing was
\* refused on a tensor with two stored entries.
C12_Witness ==
    /\ cooCall.op = "project"
    /\ AxesOf(cooCall.arg) = {0, 2}
    /\ Len(coo.data) = 2
    /\ IsError(cooRet)

\* -------------------------------------------------------------- SpecIO
\* An integrand gets metadata, is written to a group and is read back.
PropKeys == {"a", "b"}
PropValues == {Scalar(1), Scalar(2)}
\* the keyword arguments of a prop call: some keys, each with a value
PropKwargs == UNION {[K -> PropValues] : K \in SUBSET PropKeys}

IoShapes == {<<3>>, <<2, 2>>}
IoDense ==
    UNION {{NumpyArrayIntegrandInit(NdArray(shape, val)) :
               val \in [Indices(shape) -> Vals]} : shape \in IoShapes}
IoSparse ==
    {ScipyArrayIntegrandInit(CsrFromDense(NdArray(<<2, 2>>, val))) :
        val \in [Indices(<<2, 2>>) -> Vals]}
IoCoo ==
    {x \in UNION {UNION {{COOTensorInit(shape, c \o <<data>>) :
                             data \in [1..Len(c[1]) -> Vals]} :
                         c \in CoordArrays(shape, MaxCooNnz)} :
                  shape \in CooShapes} : ~IsError(x)}

InitIO ==
    /\ \E x \in IoDense \cup IoSparse \cup IoCoo : orig = [x EXCEPT !.id = 1]
    /\ group = Idle
    /\ loaded = Idle
    /\ AsmIdle /\ ThinIdle /\ CooIdle /\ PropIdle /\ RegIdle
    /\ OpsIdle /\ LazyIdle /\ ShareIdle /\ RestIdle

\* orig.prop(**kwargs) before the integrand is written
IOProp ==
    /\ group = Idle
    /\ \E kwargs \in PropKwargs :
          /\ DOMAIN kwargs # {}
          /\ orig' = PropSelf(orig, << >>, kwargs)
    /\ UNCHANGED <<group, loaded, asmVars, thinVars, cooVars, propVars, regVars,
                 opsVars, lazyVars, shareVars, restVars>>

\* orig.write(parent, name)
IOWrite ==
    /\ group = Idle
    /\ group' = IntegrandWrite(orig)
    /\ UNCHANGED <<orig, loaded, asmVars, thinVars, cooVars, propVars, regVars,
                 opsVars, lazyVars, shareVars, restVars>>

\* Integrand.read(group)
IORead ==
    /\ group.kind = "group"
    /\ loaded = Idle
    /\ loaded' = IntegrandRead(group)
    /\ UNCHANGED <<orig, group, asmVars, thinVars, cooVars, propVars, regVars,
                 opsVars, lazyVars, shareVars, restVars>>

NextIO == IOProp \/ IOWrite \/ IORead
SpecIO == InitIO /\ [][NextIO]_vars

C6_RoundTripIndistinguishable ==
    loaded.kind # "idle" =>
        /\ loaded.kind = "Integrand"
        /\ \A key \in DOMAIN orig.props :
              PropRet(loaded, <<key>>, << >>) = PropRet(orig, <<key>>, << >>)
        /\ \A key \in PropKeys :
              IsError(PropRet(loaded, <<key>>, << >>))
                  => IsError(PropRet(orig, <<key>>, << >>))
        /\ IsError(GetTrivial(loaded)) => IsError(GetTrivial(orig))
        /\ IsError(IntegrandContract(loaded, Trivial(Rank(loaded))))
              => IsError(IntegrandContract(orig, Trivial(Rank(orig))))

\* ------------------------------------------------------------ SpecProp
\* A sequence of prop calls on one integrand.
PropArgs == {<< >>} \cup {<<a>> : a \in PropKeys} \cup {<<a, b>> : a, b \in PropKeys}

InitProp ==
    /\ px = [NumpyArrayIntegrandInit(Scalar(0)) EXCEPT !.id = 1]
    /\ propCall = NoCall
    /\ propRet = Idle
    /\ firstSet = << >>
    /\ AsmIdle /\ ThinIdle /\ CooIdle /\ IoIdle /\ RegIdle
    /\ OpsIdle /\ LazyIdle /\ ShareIdle /\ RestIdle

\* px.prop(*args, **kwargs)
PropAction ==
    /\ \E args \in PropArgs : \E kwargs \in PropKwargs :
          /\ propCall' = [op |-> "prop", args |-> args, kwargs |-> kwargs]
          /\ propRet' = PropRet(px, args, kwargs)
          /\ px' = PropSelf(px, args, kwargs)
          /\ firstSet' =
                IF Len(args) > 0 THEN firstSet
                ELSE [key \in DOMAIN firstSet \cup DOMAIN kwargs |->
                         IF key \in DOMAIN firstSet THEN firstSet[key] ELSE kwargs[key]]
    /\ UNCHANGED <<asmVars, thinVars, cooVars, ioVars, regVars,
                 opsVars, lazyVars, shareVars, restVars>>

NextProp == PropAction
SpecProp == InitProp /\ [][NextProp]_vars

\* C9: after any sequence of prop calls every metadata key holds the value of
\* the first setting call (a call without names) that supplied it: a call
\* never changes or removes a key that is present, and a setting call adds
\* exactly the keys it supplies that were unset.
C9_FirstValueWins ==
    /\ [](px.props = firstSet)
    /\ [][/\ \A key \in DOMAIN px.props :
               key \in DOMAIN px'.props /\ px'.props[key] = px.props[key]
          /\ (Len(propCall'.args) = 0) =>
               DOMAIN px'.props = DOMAIN px.props \cup DOMAIN propCall'.kwargs]_vars

\* C9 witness: a setting call supplied two keys, one of them already set to
\* another value, and only the unset one was added.
C9_Witness ==
    /\ propCall.op = "prop"
    /\ propCall.args = << >>
    /\ DOMAIN propCall.kwargs = PropKeys
    /\ propCall.kwargs["a"] # px.props["a"]
    /\ propCall.kwargs["b"] = px.props["b"]

\* What a read of the names returns: the stored value where the key is set,
\* else the default supplied for the name; one value for one name, a list in
\* name order for several.
ReadExpected(props, args, kwargs) ==
    LET value(name) == IF name \in DOMAIN props THEN props[name] ELSE kwargs[name]
    IN IF Len(args) = 1 THEN value(args[1])
       ELSE [kind |-> "list", items |-> [k \in 1..Len(args) |-> value(args[k])] \o << >>]

\* C10: a prop call with one or more names leaves the metadata mapping (and
\* the integrand) unchanged, and when every name is set or has a default it
\* returns the stored value for a set key and the supplied default otherwise.
C10_ReadIsPure ==
    [][Len(propCall'.args) > 0 =>
          /\ px' = px
          /\ (\A k \in 1..Len(propCall'.args) :
                 propCall'.args[k] \in DOMAIN px.props \cup DOMAIN propCall'.kwargs)
             => propRet' = ReadExpected(px.props, propCall'.args, propCall'.kwargs)]_vars

\* C10 witness: a read of two names, the first set, the second unset and
\* answered from its default, which is not stored afterwards.
C10_Witness ==
    /\ propCall.op = "prop"
    /\ Len(propCall.args) = 2
    /\ propCall.args[1] \in DOMAIN px.props
    /\ propCall.args[2] \notin DOMAIN px.props
    /\ propCall.args[2] \in DOMAIN propCall.kwargs
    /\ propRet.kind = "list"
    /\ propRet.items[2] = propCall.kwargs[propCall.args[2]]
    /\ propRet.items[1] # propRet.items[2]

\* ------------------------------------------------------------- SpecReg
\* Classes register themselves; Integrand.make wraps values.
\* Largest number of Integrand objects that make allocates.
MaxObjects == 2

UserClasses == {"UserA", "UserB"}
UserAccepts == {{}, {"str"}, {"str", "ndarray"}}
RawValues ==
    { NdArray(<<1>>, [ix \in Indices(<<1>>) |-> 1]),
      Scalar(1),
      CsrFromDense(NdArray(<<1, 1>>, [ix \in Indices(<<1, 1>>) |-> 1])),
      [kind |-> "str", val |-> "x"] }
HeapObjects == {heap[i] : i \in 1..Len(heap)}

InitReg ==
    /\ subclasses = ModuleSubclasses
    /\ heap = << >>
    /\ makeCall = NoCall
    /\ makeRet = Idle
    /\ AsmIdle /\ ThinIdle /\ CooIdle /\ IoIdle /\ PropIdle
    /\ OpsIdle /\ LazyIdle /\ ShareIdle /\ RestIdle

\* class name(Integrand): ... is executed
Register ==
    /\ \E name \in UserClasses : \E accepts \in UserAccepts :
          subclasses' = MetaIntegrandNew(subclasses, name, accepts)
    /\ UNCHANGED <<heap, makeCall, makeRet, asmVars, thinVars, cooVars, ioVars, propVars,
                 opsVars, lazyVars, shareVars, restVars>>

\* Integrand.make(v)
MakeAction ==
    /\ Len(heap) < MaxObjects
    /\ \E v \in RawValues \cup HeapObjects :
          LET r == Make(subclasses, v)
              new == [r EXCEPT !.id = Len(heap) + 1]
          IN /\ makeCall' = [op |-> "make", arg |-> v, registry |-> subclasses,
                             nobjs |-> Len(heap)]
             /\ IF IsError(r) \/ r.id # 0
                THEN makeRet' = r /\ heap' = heap
                ELSE makeRet' = new /\ heap' = Append(heap, new)
    /\ UNCHANGED <<subclasses, asmVars, thinVars, cooVars, ioVars, propVars,
                 opsVars, lazyVars, shareVars, restVars>>

NextReg == Register \/ MakeAction
SpecReg == InitReg /\ [][NextReg]_vars

\* The positions of the classes of a registry whose accepts(v) holds.
Accepting(registry, v) == {i \in 1..Len(registry) : v.kind \in registry[i].accepts}
Least(S) == CHOOSE i \in S : \A j \in S : i <= j

\* C7: make(v) returns v itself when v is an Integrand (so make(make(v)) is
\* make(v)); otherwise, when some registered class accepts v, it returns a new
\* instance of the first accepting class in registration order, wrapping v.
C7_MakeFirstMatch ==
    makeCall.op = "make" =>
        LET v == makeCall.arg
            acc == Accepting(makeCall.registry, v)
        IN IF IsIntegrand(v)
           THEN /\ makeRet = v
                /\ Len(heap) = makeCall.nobjs
           ELSE acc # {} =>
                /\ makeRet.kind = "Integrand"
                /\ makeRet.cls = makeCall.registry[Least(acc)].name
                /\ IF v.kind = "scalar" /\ makeRet.cls = "NumpyArrayIntegrand"
                   THEN makeRet.obj = NdArray(<< >>, [ix \in {<< >>} |-> v.val])
                   ELSE makeRet.obj = v
                /\ makeRet.id = makeCall.nobjs + 1
                /\ heap[makeRet.id] = makeRet
                /\ Make(makeCall.registry, makeRet) = makeRet

\* C7 witness: two registered classes accept the value and the one
\* registered first, UserB, was instantiated.
C7_Witness ==
    /\ makeCall.op = "make"
    /\ Cardinality(Accepting(makeCall.registry, makeCall.arg)) = 2
    /\ makeRet.kind = "Integrand"
    /\ makeRet.cls = "UserB"

\* C8: acceptable(v) holds exactly when make(v) does not raise the
\* unsupported-representation error; when v is no Integrand and no registered
\* class accepts it, make raises that error and no wrapper is constructed.
C8_AcceptableIffMakeSucceeds ==
    /\ \A v \in RawValues \cup HeapObjects :
          Acceptable(subclasses, v) <=> Make(subclasses, v) # Raise("NotImplementedError")
    /\ (/\ makeCall.op = "make"
        /\ ~IsIntegrand(makeCall.arg)
        /\ Accepting(makeCall.registry, makeCall.arg) = {})
       => /\ makeRet = Raise("NotImplementedError")
          /\ Len(heap) = makeCall.nobjs
          /\ ~Acceptable(makeCall.registry, makeCall.arg)

\* C8 witness: make was refused for a string although a wrapper exists and a
\* user class is registered.
C8_Witness ==
    /\ makeCall.op = "make"
    /\ makeCall.arg.kind = "str"
    /\ makeRet = Raise("NotImplementedError")
    /\ Len(heap) = 1
    /\ Len(subclasses) > Len(ModuleSubclasses)

\* ------------------------------------------------------------- SpecOps
\* One integrand of any variant; get, contract and project are called on it
\* any number of times.  The integrand has identity 1 and a thin wrapper's
\* backing array has identity 2: a value that carries one of these is that
\* very object, a value without is newly allocated.
OpsDenseShapes == {<<2>>, <<2, 2>>, <<2, 1, 2>>}
OpsSparseShape == <<2, 2>>
OpsCooShape == <<2, 1, 2>>
OpsProps == {<< >>, [a |-> Scalar(1)]}

\* The array or matrix a as the object a thin wrapper was constructed on.
Backing(a) ==
    IF a.kind = "csr"
    THEN [kind |-> "csr", shape |-> a.shape, indptr |-> a.indptr,
          indices |-> a.indices, data |-> a.data, id |-> 2]
    ELSE [kind |-> "ndarray", shape |-> a.shape, val |-> a.val, id |-> 2]

OpsDense ==
    UNION {{NumpyArrayIntegrandInit(Backing(NdArray(shape, val))) :
               val \in [Indices(shape) -> AsmVals]} : shape \in OpsDenseShapes}
OpsSparse ==
    {ScipyArrayIntegrandInit(Backing(CsrFromDense(NdArray(OpsSparseShape, val)))) :
        val \in [Indices(OpsSparseShape) -> Vals]}
OpsCoo ==
    UNION {{COOTensorInit(OpsCooShape, c \o <<data>>) :
               data \in [1..Len(c[1]) -> AsmVals]} :
           c \in CoordArrays(OpsCooShape, MaxCooNnz)}

\* The contraction and projection specs the calls are made with: per axis
\* None or an operand of the length of the axis.
OpsContractions(shape) ==
    {c \in [1..Len(shape) -> {NoneVal} \cup {Ramp(shape[a]) : a \in 1..Len(shape)}] :
        \A a \in 1..Len(shape) : c[a] = NoneVal \/ Len(c[a]) = shape[a]}
OpsProjections(shape) ==
    {p \in [1..Len(shape) -> {NoneVal} \cup UNION {{Identity(shape[a]), <<Ramp(shape[a])>>} :
                                                      a \in 1..Len(shape)}] :
        \A a \in 1..Len(shape) : p[a] = NoneVal \/ Len(p[a][1]) = shape[a]}

\* self.shape
ShapeOf(self) == IF self.cls = "COOTensorIntegrand" THEN self.shape ELSE self.obj.shape

InitOps ==
    /\ \E made \in OpsDense \cup OpsSparse \cup OpsCoo : \E kwargs \in OpsProps :
          /\ ~IsError(made)
          /\ ox = PropSelf([made EXCEPT !.id = 1], << >>, kwargs)
    /\ opCall = NoCall
    /\ opRet = Idle
    /\ AsmIdle /\ ThinIdle /\ CooIdle /\ IoIdle /\ PropIdle /\ RegIdle
    /\ LazyIdle /\ ShareIdle /\ RestIdle

\* ox.get(c): no statement of get assigns to self
OpsGet ==
    /\ \E c \in OpsContractions(ShapeOf(ox)) :
          /\ opCall' = [op |-> "get", arg |-> c]
          /\ opRet' = IntegrandGet(ox, c)
    /\ UNCHANGED <<ox, asmVars, thinVars, cooVars, ioVars, propVars, regVars,
                   lazyVars, shareVars, restVars>>

\* ox.contract(c)
OpsContract ==
    /\ \E c \in OpsContractions(ShapeOf(ox)) :
          /\ opCall' = [op |-> "contract", arg |-> c]
          /\ opRet' = IntegrandContract(ox, c)
    /\ UNCHANGED <<ox, asmVars, thinVars, cooVars, ioVars, propVars, regVars,
                   lazyVars, shareVars, restVars>>

\* ox.project(p)
OpsProject ==
    /\ \E p \in OpsProjections(ShapeOf(ox)) :
          /\ opCall' = [op |-> "project", arg |-> p]
          /\ opRet' = IntegrandProject(ox, p)
    /\ UNCHANGED <<ox, asmVars, thinVars, cooVars, ioVars, propVars, regVars,
                   lazyVars, shareVars, restVars>>

NextOps == OpsGet \/ OpsContract \/ OpsProject
SpecOps == InitOps /\ [][NextOps]_vars

\* C11: on a COOTensorIntegrand a get or contract whose non-trivial axes are
\* {0}, {0,1} or {0,2} fails with an error and returns no value, and after
\* any sequence of get/contract/project calls, failed or not, the assembler
\* patterns the integrand owns are exactly (1,), (2,) and (1,2).
C11_UnsupportedAxesFail ==
    ox.cls = "COOTensorIntegrand" =>
        /\ DOMAIN ox.assemblers = {<<1>>, <<2>>, <<1, 2>>}
        /\ (/\ opCall.op \in {"get", "contract"}
            /\ AxesOf(opCall.arg) \in {{0}, {0, 1}, {0, 2}})
           => IsError(opRet)

\* C14: on a COOTensorIntegrand and on a ScipyArrayIntegrand, contract with
\* the all-no-op spec returns the integrand itself (the same object, with its
\* data and its metadata), so its get(all-no-op) is that of the original.
C14_TrivialContractReturnsSelf ==
    (/\ ox.cls \in {"COOTensorIntegrand", "ScipyArrayIntegrand"}
     /\ opCall.op = "contract"
     /\ AxesOf(opCall.arg) = {})
    => /\ opRet = ox
       /\ opRet.id = 1
       /\ DenseOf(GetTrivial(opRet)) = DenseOf(GetTrivial(ox))

\* C14 witness: the all-no-op contract was applied to a sparse matrix that
\* carries a metadata property.
C14_Witness ==
    /\ ox.cls = "ScipyArrayIntegrand"
    /\ DOMAIN ox.props = {"a"}
    /\ opCall.op = "contract"
    /\ AxesOf(opCall.arg) = {}
    /\ opRet.kind = "Integrand"
    /\ opRet.props = ox.props

\* Every operand is the identity matrix of the dimension of its axis.
AllIdentity(projection, shape) ==
    \A a \in 1..Len(shape) : projection[a] = Identity(shape[a])

\* C15: for a dense integrand of rank 1 to 3, a sparse matrix and a COO
\* 3-tensor, project with the identity matrix of matching dimension on every
\* axis returns an integrand whose get(all-no-op) equals that of the original.
C15_IdentityProjection ==
    (opCall.op = "project" /\ AllIdentity(opCall.arg, ShapeOf(ox))) =>
        /\ ~IsError(opRet)
        /\ opRet.kind = "Integrand"
        /\ DenseOf(GetTrivial(opRet)) = DenseOf(GetTrivial(ox))

\* C15 witness: a COO tensor with two entries at different coordinates and
\* with different values was projected with identities.
C15_Witness ==
    /\ ox.cls = "COOTensorIntegrand"
    /\ Len(ox.data) = 2
    /\ ox.data[1] # ox.data[2]
    /\ \E a \in 1..3 : ox.indices[a][1] # ox.indices[a][2]
    /\ opCall.op = "project"
    /\ AllIdentity(opCall.arg, ShapeOf(ox))
    /\ opRet.kind = "Integrand"

\* A returned value is newly allocated: it is neither the integrand, nor its
\* backing array, nor a wrapper of its backing array.
Fresh(v) ==
    IF v.kind = "Integrand"
    THEN v.id = 0 /\ ("obj" \in DOMAIN v => "id" \notin DOMAIN v.obj)
    ELSE "id" \notin DOMAIN v

\* C20 as stated: for every variant and every spec, the all-no-op spec
\* included, what get, contract and project return is newly allocated.
C20_AlwaysFresh ==
    (opCall.op # "none" /\ ~IsError(opRet)) => Fresh(opRet)

\* C20 (amended): what get, contract and project return is newly allocated
\* whenever the spec has a non-trivial operand.  With the all-no-op spec the
\* dense get and contract and the COO get still allocate, the dense project
\* returns a new wrapper of the integrand's own backing array, the sparse get
\* returns the backing matrix itself, and the sparse contract and project and
\* the COO contract return the integrand itself.
C20_FreshUnlessTrivial ==
    (opCall.op # "none" /\ ~IsError(opRet)) =>
        IF AxesOf(opCall.arg) # {} THEN Fresh(opRet)
        ELSE IF ox.cls = "NumpyArrayIntegrand"
        THEN IF opCall.op = "project"
             THEN opRet.id = 0 /\ opRet.obj = ox.obj /\ opRet.obj.id = 2
             ELSE Fresh(opRet)
        ELSE IF ox.cls = "ScipyArrayIntegrand"
        THEN IF opCall.op = "get" THEN opRet = ox.obj /\ opRet.id = 2
             ELSE opRet = ox
        ELSE IF opCall.op = "get" THEN Fresh(opRet)
             ELSE opCall.op = "contract" /\ opRet = ox

\* C20 witness: get with the column axis contracted on a sparse matrix
\* returned a new vector.
C20_Witness ==
    /\ ox.cls = "ScipyArrayIntegrand"
    /\ opCall.op = "get"
    /\ AxesOf(opCall.arg) = {1}
    /\ opRet.kind = "ndarray"
    /\ Fresh(opRet)

\* C11 witness: contract with axes 0 and 2 was refused on a tensor with two
\* stored entries.
C11_Witness ==
    /\ ox.cls = "COOTensorIntegrand"
    /\ Len(ox.data) = 2
    /\ opCall.op = "contract"
    /\ AxesOf(opCall.arg) = {0, 2}
    /\ opRet = Raise("KeyError")

\* ------------------------------------------------------------ SpecLazy
\* integrate(*args) on concrete values and deferred integrals.
\* Largest number of arguments of one integrate call.
MaxArgs == 3

\* The classes of the arguments: whether isinstance(arg, LazyIntegral) holds
\* and whether the class has an integrate attribute.  LazyIntegral itself has
\* an empty body; LazyA and LazyB stand for subclasses with a combination
\* rule.
LazyClasses ==
    [ndarray             |-> [lazy |-> FALSE, integrate |-> FALSE],
     NumpyArrayIntegrand |-> [lazy |-> FALSE, integrate |-> FALSE],
     LazyIntegral        |-> [lazy |-> TRUE,  integrate |-> FALSE],
     LazyA               |-> [lazy |-> TRUE,  integrate |-> TRUE],
     LazyB               |-> [lazy |-> TRUE,  integrate |-> TRUE]]

\* The objects handed to integrate: one per class, and a second LazyA.
LazyObjects ==
    {[cls |-> c, id |-> 1] : c \in DOMAIN LazyClasses} \cup {[cls |-> "LazyA", id |-> 2]}
ArgLists == UNION {[1..n -> LazyObjects] : n \in 0..MaxArgs}

\* The tuple of the objects args, as integrate receives and returns it.
Tuple(args) == [kind |-> "tuple", items |-> args]

\* isinstance(arg, LazyIntegral)
IsLazy(arg) == LazyClasses[arg.cls].lazy

\* Mutant of Integrate: the classes are compared even when no argument is
\* deferred.
IntegrateAlwaysCompares(args) ==
    IF \E i \in 2..Len(args) : args[i].cls # args[1].cls
    THEN [ret |-> Raise("AssertionError"), log |-> << >>]
    ELSE IF \A i \in 1..Len(args) : ~IsLazy(args[i])
    THEN [ret |-> Tuple(args), log |-> << >>]
    ELSE IF ~LazyClasses[args[1].cls].integrate
    THEN [ret |-> Raise("AttributeError"), log |-> << >>]
    ELSE [ret |-> [kind |-> "combined", cls |-> args[1].cls, args |-> args],
          log |-> <<[cls |-> args[1].cls, args |-> args]>>]

\* Mutant of Integrate: only the deferred arguments must share a class.
IntegrateLazyOnly(args) ==
    LET lz == Nonzero([i \in 1..Len(args) |-> IsLazy(args[i])] \o << >>)
    IN IF lz = << >> THEN [ret |-> Tuple(args), log |-> << >>]
       ELSE IF \E i \in 1..Len(lz) : args[lz[i]].cls # args[lz[1]].cls
       THEN [ret |-> Raise("AssertionError"), log |-> << >>]
       ELSE IF ~LazyClasses[args[lz[1]].cls].integrate
       THEN [ret |-> Raise("AttributeError"), log |-> << >>]
       ELSE [ret |-> [kind |-> "combined", cls |-> args[lz[1]].cls, args |-> args],
             log |-> <<[cls |-> args[lz[1]].cls, args |-> args]>>]

\* integrate(*args): what it returns, and the calls of a class's integrate
\* it makes
Integrate(args) ==
    IF \A i \in 1..Len(args) : ~IsLazy(args[i])
    THEN [ret |-> Tuple(args), log |-> << >>]
    ELSE IF \E i \in 2..Len(args) : args[i].cls # args[1].cls
    THEN [ret |-> Raise("AssertionError"), log |-> << >>]
    ELSE IF ~LazyClasses[args[1].cls].integrate
    THEN [ret |-> Raise("AttributeError"), log |-> << >>]
    ELSE [ret |-> [kind |-> "combined", cls |-> args[1].cls, args |-> args],
          log |-> <<[cls |-> args[1].cls, args |-> args]>>]

InitLazy ==
    /\ intCall = NoCall
    /\ intRet = Idle
    /\ intLog = << >>
    /\ AsmIdle /\ ThinIdle /\ CooIdle /\ IoIdle /\ PropIdle /\ RegIdle
    /\ OpsIdle /\ ShareIdle /\ RestIdle

IntegrateAction ==
    /\ \E args \in ArgLists :
          /\ intCall' = [op |-> "integrate", args |-> args]
          /\ intRet' = Integrate(args).ret
          /\ intLog' = Integrate(args).log
    /\ UNCHANGED <<asmVars, thinVars, cooVars, ioVars, propVars, regVars,
                   opsVars, shareVars, restVars>>

NextLazy == IntegrateAction
SpecLazy == InitLazy /\ [][NextLazy]_vars

\* C17: integrate with no LazyIntegral among its arguments returns exactly
\* those arguments, the same objects in the same order, and invokes no
\* combination rule.
C17_ConcreteArgsReturned ==
    (/\ intCall.op = "integrate"
     /\ \A i \in 1..Len(intCall.args) : ~IsLazy(intCall.args[i]))
    => /\ intRet = Tuple(intCall.args)
       /\ intLog = << >>

\* C17 witness: two concrete arguments of different classes came back in
\* order.
C17_Witness ==
    /\ intCall.op = "integrate"
    /\ Len(intCall.args) = 2
    /\ intCall.args[1].cls = "NumpyArrayIntegrand"
    /\ intCall.args[2].cls = "ndarray"
    /\ intRet = Tuple(intCall.args)

\* C18: integrate with at least one LazyIntegral argument fails, invoking no
\* combination rule, unless every argument has exactly the class of the first
\* (a mix of lazy and concrete arguments or of two lazy classes fails); when
\* all classes are equal it calls that class's integrate once, with all the
\* arguments in order.
C18_LazyArgsSameClass ==
    (/\ intCall.op = "integrate"
     /\ \E i \in 1..Len(intCall.args) : IsLazy(intCall.args[i]))
    => LET args == intCall.args
       IN IF \E i \in 1..Len(args) : args[i].cls # args[1].cls
          THEN IsError(intRet) /\ intLog = << >>
          ELSE LazyClasses[args[1].cls].integrate =>
                  /\ intLog = <<[cls |-> args[1].cls, args |-> args]>>
                  /\ intRet = [kind |-> "combined", cls |-> args[1].cls, args |-> args]

\* C18 witness: a concrete first argument followed by two deferred integrals
\* of one class was refused.
C18_Witness ==
    /\ intCall.op = "integrate"
    /\ Len(intCall.args) = 3
    /\ ~IsLazy(intCall.args[1])
    /\ intCall.args[2].cls = "LazyA"
    /\ intCall.args[3].cls = "LazyA"
    /\ intRet = Raise("AssertionError")
    /\ intLog = << >>

\* ----------------------------------------------------------- SpecShare
\* A COOTensorIntegrand is made shareable; two workers then run get,
\* contract and project on it, statement by statement, in any interleaving.
\* The arrays reachable from the integrand are one memory for all workers;
\* the locals of a call belong to its worker.
Workers == {"w1", "w2"}
ShareShape == <<2, 1, 2>>

\* util.shared_array keeps the content of an array and places it in a shared
\* segment; the placement is recorded on the object that owns the arrays.
InSharedMemory(owner) ==
    [f \in DOMAIN owner \cup {"shm"} |-> IF f = "shm" THEN TRUE ELSE owner[f]]

\* CSRAssembler.ensure_shareable / VectorAssembler.ensure_shareable
AssemblerEnsureShareable(self) == InSharedMemory(self)

\* COOTensorIntegrand.ensure_shareable
COOEnsureShareable(self) ==
    InSharedMemory([self EXCEPT !.assemblers =
                       [key \in DOMAIN self.assemblers |->
                           AssemblerEnsureShareable(self.assemblers[key])]])

\* The locals of a call: the position in the code, the operation and its
\* argument, the local data array, the loop index, project's assembler and
\* the rows of its result, and the value returned.
IdleWorker ==
    [pc |-> "idle", op |-> "none", arg |-> << >>, data |-> << >>, i |-> 0,
     ass |-> Idle, acc |-> << >>, ret |-> Idle]
Returned(w, v) == [w EXCEPT !.pc = "done", !.ret = v]

\* The first non-trivial axis of a contraction at or after axis i, else 4.
NextAxis(contraction, i) ==
    IF \E a \in i..Len(contraction) : contraction[a] # NoneVal
    THEN CHOOSE a \in i..Len(contraction) :
            /\ contraction[a] # NoneVal
            /\ \A b \in i..(a - 1) : contraction[b] = NoneVal
    ELSE Len(contraction) + 1

\* Entering get, contract (the test for the all-no-op spec, then np.copy of
\* self.data) or project (the assertion, then the construction of the local
\* assembler and of the result array).
StepEntry(self, w) ==
    IF w.op = "project"
    THEN IF \E a \in 1..Len(w.arg) : w.arg[a] = NoneVal
         THEN [self |-> self, w |-> Returned(w, Raise("AssertionError"))]
         ELSE [self |-> self,
               w |-> [w EXCEPT !.pc = "row", !.i = 0,
                               !.ass = CSRAssemblerInit(<<self.shape[2], self.shape[3]>>,
                                                        self.indices[2], self.indices[3])]]
    ELSE IF \A a \in 1..Len(w.arg) : w.arg[a] = NoneVal
    THEN [self |-> self,
          w |-> Returned(w, IF w.op = "get" THEN COOToarray(self)
                            ELSE Make(ModuleSubclasses, self))]
    ELSE [self |-> self,
          w |-> [w EXCEPT !.pc = "mul", !.data = self.data, !.i = NextAxis(w.arg, 1)]]

\* Mutant of StepMul: data is self.data itself and not a copy of it, so the
\* product is written into the integrand.
StepMulInPlace(self, w) ==
    LET data == [n \in 1..Len(self.data) |->
                    self.data[n] * w.arg[w.i][self.indices[w.i][n] + 1]] \o << >>
    IN [self |-> [self EXCEPT !.data = data],
        w |-> [w EXCEPT !.data = data, !.i = NextAxis(w.arg, w.i + 1)]]

\* data *= c[self.indices[i]] for one non-trivial axis i
StepMul(self, w) ==
    LET data == [n \in 1..Len(w.data) |->
                    w.data[n] * w.arg[w.i][self.indices[w.i][n] + 1]] \o << >>
    IN [self |-> self,
        w |-> [w EXCEPT !.data = data, !.i = NextAxis(w.arg, w.i + 1)]]

\* The end of _contract: the sum, or the lookup and the call of the
\* assembler; contract wraps what get returns as it is.
StepFinish(self, w) ==
    LET pos == Nonzero([a \in 1..Len(w.arg) |-> w.arg[a] # NoneVal] \o << >>)
        axes == [a \in 1..Len(pos) |-> pos[a] - 1] \o << >>
        retval == IF axes = <<0, 1, 2>> THEN Scalar(SumSeq(w.data))
                  ELSE IF axes \notin DOMAIN self.assemblers THEN Raise("KeyError")
                  ELSE AssemblerCall(self.assemblers[axes], w.data)
    IN [self |-> self,
        w |-> Returned(w, IF w.op = "get" \/ IsError(retval) THEN retval
                          ELSE Make(ModuleSubclasses, retval))]

\* One round of the loop of project, and the return after the last round.
StepRow(self, w) ==
    LET pa == w.arg[1]
        pb == w.arg[2]
        pc == w.arg[3]
        data == [n \in 1..Len(self.data) |->
                    self.data[n] * pa[w.i + 1][self.indices[1][n] + 1]] \o << >>
        acc == Append(w.acc, MatDot(pb, CsrDotMatT(CSRAssemblerCall(w.ass, data), pc)))
        shape == <<Len(pa), Len(pb), Len(pc)>>
    IN [self |-> self,
        w |-> IF w.i + 1 < Len(pa)
              THEN [w EXCEPT !.acc = acc, !.i = w.i + 1]
              ELSE Returned([w EXCEPT !.acc = acc, !.i = w.i + 1],
                       NumpyArrayIntegrandInit(
                           NdArray(shape, [ix \in Indices(shape) |->
                                              acc[ix[1] + 1].val[<<ix[2], ix[3]>>]])))]

\* The next statement of the call a worker is in.
WorkerStep(self, w) ==
    IF w.pc = "entry" THEN StepEntry(self, w)
    ELSE IF w.pc = "row" THEN StepRow(self, w)
    ELSE IF w.i <= Len(w.arg) THEN StepMul(self, w)
    ELSE StepFinish(self, w)

\* The tensors that are shared, and the specs the workers call with.
ShareCoo ==
    UNION {{COOTensorInit(ShareShape, c \o <<Ramp(Len(c[1]))>>)} :
           c \in CoordArrays(ShareShape, MaxCooNnz)}
ShareProjections ==
    {Trivial(3),
     [a \in 1..3 |-> Identity(ShareShape[a])] \o << >>,
     [a \in 1..3 |-> <<Ramp(ShareShape[a])>>] \o << >>}

InitShare ==
    /\ \E made \in ShareCoo :
          /\ ~IsError(made)
          /\ shared = [made EXCEPT !.id = 1]
    /\ frozen = Idle
    /\ workers = [k \in Workers |-> IdleWorker]
    /\ AsmIdle /\ ThinIdle /\ CooIdle /\ IoIdle /\ PropIdle /\ RegIdle
    /\ OpsIdle /\ LazyIdle /\ RestIdle

\* shared.ensure_shareable(); the workers are started after it has returned
EnsureShareable ==
    /\ frozen = Idle
    /\ shared' = COOEnsureShareable(shared)
    /\ frozen' = shared'
    /\ UNCHANGED <<workers, asmVars, thinVars, cooVars, ioVars, propVars, regVars,
                   opsVars, lazyVars, restVars>>

\* a worker calls get, contract or project
WorkerCall ==
    /\ frozen # Idle
    /\ \E k \in Workers :
          /\ workers[k].pc \in {"idle", "done"}
          /\ \/ \E op \in {"get", "contract"} : \E c \in OpsContractions(ShareShape) :
                   workers' = [workers EXCEPT ![k] =
                                  [IdleWorker EXCEPT !.pc = "entry", !.op = op, !.arg = c]]
             \/ \E p \in ShareProjections :
                   workers' = [workers EXCEPT ![k] =
                                  [IdleWorker EXCEPT !.pc = "entry", !.op = "project",
                                                     !.arg = p]]
    /\ UNCHANGED <<shared, frozen, asmVars, thinVars, cooVars, ioVars, propVars, regVars,
                   opsVars, lazyVars, restVars>>

\* a worker executes its next statement
WorkerRun ==
    /\ \E k \in Workers :
          /\ workers[k].pc \notin {"idle", "done"}
          /\ shared' = WorkerStep(shared, workers[k]).self
          /\ workers' = [workers EXCEPT ![k] = WorkerStep(shared, workers[k]).w]
    /\ UNCHANGED <<frozen, asmVars, thinVars, cooVars, ioVars, propVars, regVars,
                   opsVars, lazyVars, restVars>>

NextShare == EnsureShareable \/ WorkerCall \/ WorkerRun
SpecShare == InitShare /\ [][NextShare]_vars

\* What the call of a worker returns when it runs alone on the integrand as
\* ensure_shareable left it.
Alone(w) ==
    IF w.op = "get" THEN COOGet(frozen, w.arg)
    ELSE IF w.op = "contract" THEN COOContract(frozen, w.arg)
    ELSE COOProject(frozen, w.arg)

LifeThinShape == <<2, 2>>
LifeCooShape == <<2, 1, 2>>
\* The input values of a COO tensor: exact zero or not.
LifeVals == {0, 1}

\* The constructor calls: NumpyArrayIntegrand(obj), ScipyArrayIntegrand(obj)
\* and COOTensorIntegrand(shape, i, j, k, data) with exact zeros among data.
LifeDenseArgs ==
    {[cls |-> "NumpyArrayIntegrand", obj |-> NdArray(LifeThinShape, val)] :
        val \in [Indices(LifeThinShape) -> AsmVals]}
LifeSparseArgs ==
    {[cls |-> "ScipyArrayIntegrand", obj |-> CsrFromDense(NdArray(LifeThinShape, val))] :
        val \in [Indices(LifeThinShape) -> AsmVals]}
LifeCooArgs ==
    UNION {{[cls |-> "COOTensorIntegrand", shape |-> LifeCooShape, args |-> c \o <<data>>] :
               data \in [1..Len(c[1]) -> LifeVals]} :
           c \in CoordArrays(LifeCooShape, MaxCooNnz)}
\* cls(*args)
LifeConstruct(a) ==
    IF a.cls = "NumpyArrayIntegrand" THEN NumpyArrayIntegrandInit(a.obj)
    ELSE IF a.cls = "ScipyArrayIntegrand" THEN ScipyArrayIntegrandInit(a.obj)
    ELSE COOTensorInit(a.shape, a.args)
LifeKwargs == {<< >>, [a |-> Scalar(1)]}
\* The data vectors an assembler over n entries is called with.
LifeVectors(n) == {Ones(n), Ramp(n)}

\* NumpyArrayIntegrand.cache, ScipyArrayIntegrand.cache, COOTensorIntegrand.cache
IntegrandCache(self) == self

\* Integrand.ensure_shareable does nothing; COOTensorIntegrand overrides it
IntegrandEnsureShareable(self) ==
    IF self.cls = "COOTensorIntegrand" THEN COOEnsureShareable(self) ELSE self

\* Mutant of SelfAfter: _contract multiplies self.data in place instead of a
\* copy of it.
SelfAfterInPlace(self, op, arg) ==
    IF /\ op \in {"get", "contract"}
       /\ self.cls = "COOTensorIntegrand"
       /\ \E i \in 1..Len(arg) : arg[i] # NoneVal
    THEN [self EXCEPT !.data = COOMulLoop(self.data, self.indices, arg, 1)]
    ELSE self

\* Mutant of SelfAfter: project on a thin wrapper stores the projected array
\* as self.obj.
SelfAfterProjectStores(self, op, arg) ==
    IF op = "project" /\ self.cls # "COOTensorIntegrand"
    THEN LET ret == IntegrandProject(self, arg)
         IN IF IsError(ret) THEN self ELSE [self EXCEPT !.obj = ret.obj]
    ELSE self

\* The integrand as a call of op leaves it.  get, contract, project, cache
\* and write have no statement that assigns to self or writes into one of its
\* arrays (_contract works on self.data.copy(), project on new arrays); prop
\* stores metadata; ensure_shareable replaces the arrays by shared copies.
SelfAfter(self, op, arg) ==
    IF op = "prop" THEN PropSelf(self, << >>, arg)
    ELSE IF op = "ensure_shareable" THEN IntegrandEnsureShareable(self)
    ELSE self

\* Mutant of AssemblerCallEffect: the permutation is applied to data in place.
AssemblerCallEffectInPlace(self, data) ==
    [self |-> self, data |-> Take(data, self.order)]

\* The assembler and the data vector as __call__ leaves them: data[self.order]
\* is a copy, the name data is rebound to the reduced array, and nothing is
\* assigned to self.
AssemblerCallEffect(self, data) == [self |-> self, data |-> data]

InitLife ==
    /\ \E a \in LifeDenseArgs \cup LifeSparseArgs \cup LifeCooArgs :
          /\ ~IsError(LifeConstruct(a))
          /\ lArgs = a
          /\ lx = LifeConstruct(a)
          /\ lx0 = LifeConstruct(a)
    /\ lCall = NoCall
    /\ lRet = Idle
    /\ BaseIdle /\ CtorIdle /\ NewtonIdle /\ CaseIdle

\* lx.get(c)
LifeGet ==
    /\ \E c \in OpsContractions(ShapeOf(lx)) :
          /\ lCall' = [op |-> "get", arg |-> c, before |-> lx]
          /\ lRet' = IntegrandGet(lx, c)
          /\ lx' = SelfAfter(lx, "get", c)
    /\ UNCHANGED <<lx0, lArgs, baseVars, ctorVars, newtonVars, caseVars>>

\* lx.contract(c)
LifeContract ==
    /\ \E c \in OpsContractions(ShapeOf(lx)) :
          /\ lCall' = [op |-> "contract", arg |-> c, before |-> lx]
          /\ lRet' = IntegrandContract(lx, c)
          /\ lx' = SelfAfter(lx, "contract", c)
    /\ UNCHANGED <<lx0, lArgs, baseVars, ctorVars, newtonVars, caseVars>>

\* lx.project(p)
LifeProject ==
    /\ \E p \in OpsProjections(ShapeOf(lx)) :
          /\ lCall' = [op |-> "project", arg |-> p, before |-> lx]
          /\ lRet' = IntegrandProject(lx, p)
          /\ lx' = SelfAfter(lx, "project", p)
    /\ UNCHANGED <<lx0, lArgs, baseVars, ctorVars, newtonVars, caseVars>>

\* lx.cache()
LifeCache ==
    /\ lCall' = [op |-> "cache", arg |-> << >>, before |-> lx]
    /\ lRet' = IntegrandCache(lx)
    /\ lx' = SelfAfter(lx, "cache", << >>)
    /\ UNCHANGED <<lx0, lArgs, baseVars, ctorVars, newtonVars, caseVars>>

\* lx.prop(**kwargs)
LifeProp ==
    /\ \E kwargs \in LifeKwargs :
          /\ lCall' = [op |-> "prop", arg |-> kwargs, before |-> lx]
          /\ lRet' = PropRet(lx, << >>, kwargs)
          /\ lx' = SelfAfter(lx, "prop", kwargs)
    /\ UNCHANGED <<lx0, lArgs, baseVars, ctorVars, newtonVars, caseVars>>

\* lx.write(group)
LifeWrite ==
    /\ lCall' = [op |-> "write", arg |-> << >>, before |-> lx]
    /\ lRet' = IntegrandWrite(lx)
    /\ lx' = SelfAfter(lx, "write", << >>)
    /\ UNCHANGED <<lx0, lArgs, baseVars, ctorVars, newtonVars, caseVars>>

\* lx.ensure_shareable()
LifeEnsureShareable ==
    /\ lCall' = [op |-> "ensure_shareable", arg |-> << >>, before |-> lx]
    /\ lRet' = NoneVal
    /\ lx' = SelfAfter(lx, "ensure_shareable", << >>)
    /\ UNCHANGED <<lx0, lArgs, baseVars, ctorVars, newtonVars, caseVars>>

\* lx.assemblers[key](data) for a data vector of the length of lx.data
LifeAssemble ==
    /\ lx.cls = "COOTensorIntegrand"
    /\ \E key \in DOMAIN lx.assemblers : \E data \in LifeVectors(Len(lx.data)) :
          LET after == AssemblerCallEffect(lx.assemblers[key], data)
          IN /\ lCall' = [op |-> "assemble", arg |-> data, before |-> lx,
                          key |-> key, data |-> after.data]
             /\ lRet' = AssemblerCall(lx.assemblers[key], data)
             /\ lx' = [lx EXCEPT !.assemblers[key] = after.self]
    /\ UNCHANGED <<lx0, lArgs, baseVars, ctorVars, newtonVars, caseVars>>

NextLife ==
    \/ LifeGet \/ LifeContract \/ LifeProject \/ LifeCache \/ LifeProp
    \/ LifeWrite \/ LifeEnsureShareable \/ LifeAssemble
SpecLife == InitLife /\ [][NextLife]_vars

\* C21: after any sequence of get, contract, project, cache, prop, write and
\* ensure_shareable calls, the shape of the integrand and its concrete
\* variant are those it had immediately after construction.
C21_ShapeAndVariantFixed ==
    /\ ShapeOf(lx) = ShapeOf(lx0)
    /\ lx.cls = lx0.cls

\* C21 witness: a sparse matrix was projected to another shape after its
\* metadata had been set, and kept its own shape.
C21_Witness ==
    /\ lx.cls = "ScipyArrayIntegrand"
    /\ DOMAIN lx.props = {"a"}
    /\ lCall.op = "project"
    /\ lRet.kind = "Integrand"
    /\ ShapeOf(lRet) # ShapeOf(lx)
    /\ ShapeOf(lx0) = LifeThinShape

\* The arrays, the shape and the assembler arrays of an integrand.
Payload(self) ==
    IF self.cls = "COOTensorIntegrand"
    THEN [data |-> self.data, indices |-> self.indices, shape |-> self.shape,
          assemblers |-> [key \in DOMAIN self.assemblers |->
                             [f \in DOMAIN self.assemblers[key] \ {"shm"} |->
                                 self.assemblers[key][f]]]]
    ELSE [data |-> self.obj, shape |-> self.obj.shape]

\* C23: get, contract, project and cache on any integrand and __call__ on one
\* of its assemblers leave the data array, the index arrays, the shape and
\* the assembler mapping with its row, col, order and segment arrays as they
\* were before the call, __call__ leaves its input data vector unchanged, and
\* what __call__ returns is what the assembler as constructed returns for
\* that data vector, whatever was called before.
C23_CallsLeaveArraysUnchanged ==
    lCall.op \in {"get", "contract", "project", "cache", "assemble"} =>
        /\ Payload(lx) = Payload(lCall.before)
        /\ Payload(lx) = Payload(lx0)
        /\ lCall.op = "assemble" =>
              /\ lCall.data = lCall.arg
              /\ lRet = AssemblerCall(lx0.assemblers[lCall.key], lCall.arg)

\* C23 witness: on a tensor with two entries stored out of order, already
\* moved to shared memory, the (1,) assembler was called with a ramp.
C23_Witness ==
    /\ lx.cls = "COOTensorIntegrand"
    /\ "shm" \in DOMAIN lx
    /\ lCall.op = "assemble"
    /\ lCall.key = <<1>>
    /\ lCall.arg = <<1, 2>>
    /\ lx.assemblers[<<1>>].order = <<2, 1>>
    /\ ~IsError(lRet)

\* Entry n of the arrays (i, j, k, data): its coordinates with its value.
EntryAt(args, n) == <<args[1][n], args[2][n], args[3][n], args[4][n]>>
StoredEntries(self) ==
    {EntryAt(self.indices \o <<self.data>>, n) : n \in 1..Len(self.data)}
InputEntries(args) == {EntryAt(args, n) : n \in 1..Len(args[4])}

\* C25: after construction and after any sequence of operations the three
\* index arrays and the data array of a COOTensorIntegrand have the same
\* length, no stored value is zero, the stored entries are the input entries
\* with a non-zero value, and the permutation of every assembler has that
\* length, so that an assembler accepts every data vector _contract makes.
C25_CooArraysAligned ==
    lx.cls = "COOTensorIntegrand" =>
        /\ \A a \in 1..3 : Len(lx.indices[a]) = Len(lx.data)
        /\ \A n \in 1..Len(lx.data) : lx.data[n] # 0
        /\ \A t \in StoredEntries(lx) \cup InputEntries(lArgs.args) :
              Cardinality({n \in 1..Len(lx.data) : EntryAt(lx.indices \o <<lx.data>>, n) = t})
                  = Cardinality({n \in 1..Len(lArgs.args[4]) :
                                    /\ EntryAt(lArgs.args, n) = t
                                    /\ lArgs.args[4][n] # 0})
        /\ \A key \in DOMAIN lx.assemblers :
              /\ Len(lx.assemblers[key].order) = Len(lx.data)
              /\ {lx.assemblers[key].order[n] : n \in 1..Len(lx.data)}
                     = 1..Len(lx.data)
        /\ (lCall.op \in {"get", "contract"} /\ AxesOf(lCall.arg) \in {{1}, {2}, {1, 2}})
           => ~IsError(lRet)

\* C25 witness: of two input entries the one with value zero was dropped,
\* and then a contraction was dispatched to the (1,2) assembler.
C25_Witness ==
    /\ lx.cls = "COOTensorIntegrand"
    /\ Len(lArgs.args[4]) = 2
    /\ lArgs.args[4][1] = 0
    /\ Len(lx.data) = 1
    /\ lCall.op = "contract"
    /\ AxesOf(lCall.arg) = {1, 2}
    /\ lRet.kind = "Integrand"

\* ---------------------------------------------------------- SpecDamaged
\* An integrand is written, one entry or attribute of the written group is
\* deleted, and the group is read.
\* The entries and attributes the readers look up: the type attribute, the
\* items of the group and, for a COO tensor, the items and the shape
\* attribute of its data sub-group.
GroupEntries(grp) ==
    {[at |-> "attr", name |-> "type"]}
    \cup {[at |-> "item", name |-> n] : n \in DOMAIN grp.items}
    \cup (IF grp.attrs.type = "COOTensorIntegrand"
          THEN {[at |-> "data-attr", name |-> "shape"]}
               \cup {[at |-> "data-item", name |-> n] : n \in DOMAIN grp.items.data.items}
          ELSE {})

\* f without the key name
Without(f, name) == [k \in DOMAIN f \ {name} |-> f[k]]

\* del group.attrs[name] / del group[name], at top level or in group['data']
DeleteEntry(grp, entry) ==
    IF entry.at = "attr" THEN [grp EXCEPT !.attrs = Without(@, entry.name)]
    ELSE IF entry.at = "item" THEN [grp EXCEPT !.items = Without(@, entry.name)]
    ELSE IF entry.at = "data-attr"
    THEN [grp EXCEPT !.items.data.attrs = Without(@, entry.name)]
    ELSE [grp EXCEPT !.items.data.items = Without(@, entry.name)]

\* one required entry or attribute of the written group is deleted
IODamage ==
    /\ group.kind = "group"
    /\ group = IntegrandWrite(orig)
    /\ loaded = Idle
    /\ \E entry \in GroupEntries(group) : group' = DeleteEntry(group, entry)
    /\ UNCHANGED <<orig, loaded, asmVars, thinVars, cooVars, propVars, regVars,
                   opsVars, lazyVars, shareVars, restVars>>

NextDamaged == IOProp \/ IOWrite \/ IODamage \/ IORead
SpecDamaged == InitIO /\ [][NextDamaged]_vars

\* The group lacks the type attribute or an entry its reader requires.
Lacking(grp) ==
    \/ "type" \notin DOMAIN grp.attrs
    \/ /\ grp.attrs.type \in {"NumpyArrayIntegrand", "ScipyArrayIntegrand"}
       /\ ~({"data", "properties"} \subseteq DOMAIN grp.items)
    \/ /\ grp.attrs.type = "COOTensorIntegrand"
       /\ \/ "data" \notin DOMAIN grp.items
          \/ ~({"indices-i", "indices-j", "indices-k", "data", "assemblers"}
                  \subseteq DOMAIN grp.items.data.items)
          \/ "shape" \notin DOMAIN grp.items.data.attrs

\* C22: reading from a group that lacks the type attribute, data or
\* properties of a thin wrapper, or indices-i, indices-j, indices-k, data,
\* shape or assemblers of a COOTensorIntegrand ends in an error, and what the
\* caller gets is not an Integrand.
C22_MissingEntryFails ==
    (loaded.kind # "idle" /\ Lacking(group)) =>
        /\ IsError(loaded)
        /\ loaded.kind # "Integrand"

\* C22 witness: a dense integrand with metadata was written, its properties
\* group was deleted, and the read ended in KeyError.
C22_Witness ==
    /\ orig.cls = "NumpyArrayIntegrand"
    /\ DOMAIN orig.props = PropKeys
    /\ group.kind = "group"
    /\ "type" \in DOMAIN group.attrs
    /\ DOMAIN group.items = {"data"}
    /\ loaded = Raise("KeyError")

\* ---- SpecIO, continued: the assemblers of a written COO tensor
\* The assembler sub-groups of a written COOTensorIntegrand, by name.
WrittenAssemblers(grp) == grp.items.data.items.assemblers.items

\* The type and the arrays of an assembler.
AssemblerArrays(a) ==
    [type |-> a.kind, shape |-> a.shape, row |-> a.row,
     col |-> IF a.kind = "CSRAssembler" THEN a.col ELSE NoneVal,
     order |-> a.order, inds |-> a.inds]

\* The contractions a COOTensorIntegrand has an assembler for.
SupportedContractions(shape) ==
    {c \in OpsContractions(shape) : AxesOf(c) \in {{1}, {2}, {1, 2}}}

Int32Max == 2147483647

\* A coordinate of up to 64 bits is kept as hi * 2^31 + lo with
\* 0 <= lo <= Int32Max, so that values beyond 32 bits can be compared.
Num(hi, lo) == [hi |-> hi, lo |-> lo]
NumLeq(x, y) == x.hi < y.hi \/ (x.hi = y.hi /\ x.lo <= y.lo)
\* np.max(i)
NumMax(i) ==
    LET vals == {i[n] : n \in 1..Len(i)}
    IN CHOOSE x \in vals : \A y \in vals : NumLeq(y, x)

\* 2^w for the widths below 32
RECURSIVE Pow2(_)
Pow2(w) == IF w = 0 THEN 1 ELSE 2 * Pow2(w - 1)

\* x.astype(intw): the value of x modulo 2^w, read as a signed w-bit number
\* (inputs are within 64 bits)
AsType(x, w) ==
    IF w = 64 THEN x
    ELSE IF w = 32 THEN Num(-(x.hi % 2), x.lo)
    ELSE LET low == x.lo % Pow2(w)
         IN IF low < Pow2(w - 1) THEN Num(0, low)
            ELSE Num(-1, Int32Max - (Pow2(w) - 1) + low)

\* Mutant of IndexDtype: the indices are always stored as int32.
IndexDtypeAlways32(indices) == 32

\* fits = all(np.max(i) <= np.iinfo(np.int32).max for i in indices);
\* idx_dtype = np.int32 if fits else np.int64  (the width in bits)
IndexDtype(indices) ==
    IF \A a \in 1..Len(indices) : NumLeq(NumMax(indices[a]), Num(0, Int32Max))
    THEN 32 ELSE 64

\* The index arrays COOTensorIntegrand.__init__ stores for (i, j, k, data):
\* the entries with a non-zero value, converted to idx_dtype.
COOIndexArrays(args) ==
    LET last == args[Len(args)]
        nz == Nonzero([n \in 1..Len(last) |-> last[n] # 0] \o << >>)
        indices == [a \in 1..3 |-> Take(args[a], nz)] \o << >>
    IN IF Len(nz) = 0 THEN Raise("ValueError")
       ELSE LET idx_dtype == IndexDtype(indices)
            IN [kind |-> "indices",
                dtype |-> idx_dtype,
                indices |-> [a \in 1..3 |->
                                [n \in 1..Len(nz) |->
                                    AsType(indices[a][n], idx_dtype)] \o << >>] \o << >>]

\* Coordinates at the limits of the 8-, 16-, 32-bit types and beyond.
BigCoords ==
    {Num(0, 127), Num(0, 128), Num(0, 32767), Num(0, 32768),
     Num(0, Int32Max), Num(1, 0)}
CtorShape3 == <<2, 1, 2>>
CtorShape2 == <<2, 2>>
CtorShape1 == <<2>>

\* The arguments of the constructor calls.
CtorArgs ==
    UNION {{[cls |-> "COOTensorIntegrand", shape |-> CtorShape3, args |-> c \o <<data>>] :
               data \in [1..Len(c[1]) -> Vals]} :
           c \in CoordArrays(CtorShape3, MaxCooNnz)}
    \cup {[cls |-> "CSRAssembler", shape |-> CtorShape2, args |-> c] :
             c \in CoordArrays(CtorShape2, MaxCooNnz)}
    \cup {[cls |-> "VectorAssembler", shape |-> CtorShape1, args |-> c] :
             c \in CoordArrays(CtorShape1, MaxCooNnz)}
    \cup UNION {{[cls |-> "indices",
                  args |-> <<i, [n \in 1..len |-> IF n = 1 THEN j ELSE Num(0, 0)] \o << >>,
                             [n \in 1..len |-> Num(0, 0)] \o << >>, data>>] :
                    i \in [1..len -> BigCoords], j \in {Num(0, 0), Num(1, 0)},
                    data \in [1..len -> {0, 1}]} :
                len \in 0..MaxCooNnz}

InitCtor ==
    /\ cArgs \in CtorArgs
    /\ cRet = Idle
    /\ BaseIdle /\ LifeIdle /\ NewtonIdle /\ CaseIdle

\* COOTensorIntegrand(shape, i, j, k, data)
CtorCOO ==
    /\ cArgs.cls = "COOTensorIntegrand"
    /\ cRet = Idle
    /\ cRet' = COOTensorInit(cArgs.shape, cArgs.args)
    /\ UNCHANGED <<cArgs, baseVars, lifeVars, newtonVars, caseVars>>

\* CSRAssembler(shape, row, col)
CtorCSR ==
    /\ cArgs.cls = "CSRAssembler"
    /\ cRet = Idle
    /\ cRet' = CSRAssemblerInit(cArgs.shape, cArgs.args[1], cArgs.args[2])
    /\ UNCHANGED <<cArgs, baseVars, lifeVars, newtonVars, caseVars>>

\* VectorAssembler(shape, inds)
CtorVector ==
    /\ cArgs.cls = "VectorAssembler"
    /\ cRet = Idle
    /\ cRet' = VectorAssemblerInit(cArgs.shape, cArgs.args[1])
    /\ UNCHANGED <<cArgs, baseVars, lifeVars, newtonVars, caseVars>>

\* the index arrays of COOTensorIntegrand(shape, i, j, k, data)
CtorIndices ==
    /\ cArgs.cls = "indices"
    /\ cRet = Idle
    /\ cRet' = COOIndexArrays(cArgs.args)
    /\ UNCHANGED <<cArgs, baseVars, lifeVars, newtonVars, caseVars>>

NextCtor == CtorCOO \/ CtorCSR \/ CtorVector \/ CtorIndices
SpecCtor == InitCtor /\ [][NextCtor]_vars

\* The coordinates of the entries with a non-zero value, per axis.
KeptCoords(args) ==
    [a \in 1..3 |-> {args[a][n] : n \in {m \in 1..Len(args[4]) : args[4][m] # 0}}]

\* The smallest of the widths 8, 16, 32, 64 whose signed range holds x >= 0.
SmallestWidth(x) ==
    IF NumLeq(x, Num(0, 127)) THEN 8
    ELSE IF NumLeq(x, Num(0, 32767)) THEN 16
    ELSE IF NumLeq(x, Num(0, Int32Max)) THEN 32
    ELSE 64

\* The stored index arrays hold, in order, the coordinates of the entries
\* with a non-zero value, unchanged.
CoordsKept(args, ret) ==
    \A a \in 1..3 :
        /\ {ret.indices[a][n] : n \in 1..Len(ret.indices[a])} = KeptCoords(args)[a]
        /\ \A n \in 1..Len(ret.indices[a]) :
              \E m \in 1..Len(args[a]) : args[4][m] # 0 /\ ret.indices[a][n] = args[a][m]

\* C26 as stated: the index arrays are stored in the smallest signed integer
\* type among 8, 16, 32 and 64 bits that holds the maximum coordinate, and no
\* coordinate is changed.
C26_SmallestSignedType ==
    (cArgs.cls = "indices" /\ cRet.kind = "indices") =>
        /\ \E top \in UNION {KeptCoords(cArgs.args)[a] : a \in 1..3} :
              /\ \A a \in 1..3 : \A x \in KeptCoords(cArgs.args)[a] : NumLeq(x, top)
              /\ cRet.dtype = SmallestWidth(top)
        /\ CoordsKept(cArgs.args, cRet)

\* C26 (amended): the index arrays are stored as 32-bit signed integers when
\* every coordinate of an entry that is kept is at most 2^31 - 1, and as
\* 64-bit signed integers otherwise; no coordinate is changed.
C26_Int32OrInt64 ==
    (cArgs.cls = "indices" /\ cRet.kind = "indices") =>
        /\ cRet.dtype =
              IF \A a \in 1..3 : \A x \in KeptCoords(cArgs.args)[a] :
                     NumLeq(x, Num(0, Int32Max))
              THEN 32 ELSE 64
        /\ CoordsKept(cArgs.args, cRet)

\* C26 witness: index arrays with the coordinates 2^31 - 1 and 2^31 were
\* stored.
C26_Witness ==
    /\ cArgs.cls = "indices"
    /\ cRet.kind = "indices"
    /\ cRet.indices[1] = <<Num(0, Int32Max), Num(1, 0)>>
    /\ cRet.dtype = 64

\* The constructor call is made on no entry at all or, for the tensor, on
\* entries whose values are all exactly zero.
NothingToStore(a) ==
    IF a.cls = "COOTensorIntegrand" THEN \A n \in 1..Len(a.args[4]) : a.args[4][n] = 0
    ELSE Len(a.args[1]) = 0

\* C29: constructing a COOTensorIntegrand from an empty value array or from
\* values that are all exactly zero, or a CSRAssembler or VectorAssembler
\* from an empty coordinate list, ends in an error: no tensor and no
\* assembler is produced.
C29_EmptyConstructionFails ==
    (cArgs.cls \in {"COOTensorIntegrand", "CSRAssembler", "VectorAssembler"}
     /\ cRet.kind # "idle" /\ NothingToStore(cArgs))
    => /\ IsError(cRet)
       /\ cRet.kind \notin {"Integrand", "CSRAssembler", "VectorAssembler"}

\* C29 witness: a tensor was constructed from two entries with value zero,
\* and the constructor raised.
C29_Witness ==
    /\ cArgs.cls = "COOTensorIntegrand"
    /\ Len(cArgs.args[4]) = 2
    /\ NothingToStore(cArgs)
    /\ cRet = Raise("ValueError")

\* ---- SpecOps, continued: get on a sparse matrix
\* The dense integrand of the matrix a sparse integrand wraps.
DenseForm(self) ==
    NumpyArrayIntegrandInit(NdArray(self.obj.shape, DenseOf(self.obj).val))

\* ca^T * M * cb, summed entry by entry
Bilinear(m, ca, cb) ==
    SumSet([ix \in Indices(m.shape) |->
               ca[ix[1] + 1] * CsrEntry(m, ix[1], ix[2]) * cb[ix[2] + 1]],
           Indices(m.shape))

\* C28: ScipyArrayIntegrand.get with both axes non-trivial returns the scalar
\* ca^T*M*cb where contract refuses the spec; whenever contract succeeds,
\* get(c) has the entries of contract(c).get(all-no-op); and for every spec
\* get(c) has the entries of NumpyArrayIntegrand.get(c) on the dense form.
C28_SparseGetBilinear ==
    (ox.cls = "ScipyArrayIntegrand" /\ opCall.op = "get") =>
        LET c == opCall.arg
            viaContract == IntegrandContract(ox, c)
        IN /\ ~IsError(opRet)
           /\ AxesOf(c) = {0, 1} =>
                 /\ opRet.kind = "scalar"
                 /\ opRet.val = Bilinear(ox.obj, c[1], c[2])
                 /\ IsError(viaContract)
           /\ ~IsError(viaContract) =>
                 DenseOf(opRet) = DenseOf(GetTrivial(viaContract))
           /\ DenseOf(opRet) = DenseOf(NumpyGet(DenseForm(ox), c))

\* C28 witness: get with both operands on a matrix that is neither symmetric
\* nor zero returned a scalar.
C28_Witness ==
    /\ ox.cls = "ScipyArrayIntegrand"
    /\ opCall.op = "get"
    /\ AxesOf(opCall.arg) = {0, 1}
    /\ CsrEntry(ox.obj, 0, 1) # CsrEntry(ox.obj, 1, 0)
    /\ opRet.kind = "scalar"
    /\ opRet.val > 0

\* ---------------------------------------------------------- SpecNewton
\* The Newton loop of navierstokes and of navierstokes_block, statement by
\* statement: the update is computed and added to lhs, its norm is compared
\* with newton_tol, and the iteration counter is compared with maxit.  The
\* norm of an update is any of a few non-negative values.
\* Largest iteration limit maxit a solver is called with.
MaxMaxit == 3
NormVals == {0, 1, 2}
TolVals == {1, 2}
Solvers == {"navierstokes", "navierstokes_block"}

\* if update_norm < newton_tol: break
Converged(update_norm, newton_tol) == update_norm < newton_tol

\* Mutant of LimitExceeded: the limit is tested one iteration late.
LimitExceededLate(it, maxit) == it > maxit + 1

\* if it > maxit: raise IterationCountError
LimitExceeded(it, maxit) == it > maxit

\* The call: the Stokes solve before the loop is done, count(1) gives it = 1.
InitNewton ==
    /\ nsFn \in Solvers
    /\ nsMaxit \in 0..MaxMaxit
    /\ nsTol \in TolVals
    /\ nsIt = 1
    /\ nsNorms = << >>
    /\ nsUpdates = 0
    /\ nsPc = "update"
    /\ BaseIdle /\ LifeIdle /\ CtorIdle /\ CaseIdle

\* update = ...solve(...); lhs += update; update_norm = np.sqrt(...)
NewtonUpdate ==
    /\ nsPc = "update"
    /\ \E update_norm \in NormVals : nsNorms' = Append(nsNorms, update_norm)
    /\ nsUpdates' = nsUpdates + 1
    /\ nsPc' = "test"
    /\ UNCHANGED <<nsFn, nsMaxit, nsTol, nsIt, baseVars, lifeVars, ctorVars, caseVars>>

\* if update_norm < newton_tol: break; return lhs
NewtonTest ==
    /\ nsPc = "test"
    /\ nsPc' = IF Converged(nsNorms[Len(nsNorms)], nsTol) THEN "returned" ELSE "limit"
    /\ UNCHANGED <<nsFn, nsMaxit, nsTol, nsIt, nsNorms, nsUpdates,
                   baseVars, lifeVars, ctorVars, caseVars>>

\* if it > maxit: raise IterationCountError; otherwise the next value of it
NewtonLimit ==
    /\ nsPc = "limit"
    /\ IF LimitExceeded(nsIt, nsMaxit)
       THEN nsPc' = "raised" /\ nsIt' = nsIt
       ELSE nsPc' = "update" /\ nsIt' = nsIt + 1
    /\ UNCHANGED <<nsFn, nsMaxit, nsTol, nsNorms, nsUpdates,
                   baseVars, lifeVars, ctorVars, caseVars>>

NextNewton == NewtonUpdate \/ NewtonTest \/ NewtonLimit
SpecNewton == InitNewton /\ [][NextNewton]_vars
\* The interpreter runs the call to its end: a statement that can execute does.
SpecNewtonLive == SpecNewton /\ WF_vars(NextNewton)

\* The solver has returned lhs or raised IterationCountError.
NewtonDone == nsPc \in {"returned", "raised"}

\* The norms of the iterations before the last one were not below newton_tol.
NoEarlierConvergence ==
    \A n \in 1..(Len(nsNorms) - 1) : ~(nsNorms[n] < nsTol)

\* C27: the Newton loop of either solver terminates; it returns at the first
\* iteration whose update norm is below newton_tol, iteration maxit+1
\* included, and otherwise raises IterationCountError at the end of
\* iteration maxit+1; the update of an iteration is applied before its tests,
\* and no run applies more than maxit+1 updates.
C27_NewtonTerminates ==
    /\ <>NewtonDone
    /\ [](nsUpdates <= nsMaxit + 1)
    /\ [](nsPc \in {"test", "limit", "returned", "raised"} =>
             nsUpdates = nsIt /\ Len(nsNorms) = nsIt)
    /\ [](nsPc = "returned" =>
             /\ nsNorms[nsIt] < nsTol
             /\ NoEarlierConvergence
             /\ nsIt <= nsMaxit + 1)
    /\ [](nsPc = "raised" =>
             /\ nsIt = nsMaxit + 1
             /\ \A n \in 1..nsIt : ~(nsNorms[n] < nsTol))

\* C27 witness: with maxit = 2 the third update was the first one below the
\* tolerance, and the solver returned.
C27_Witness ==
    /\ nsPc = "returned"
    /\ nsMaxit = 2
    /\ nsIt = 3
    /\ nsUpdates = 3

\* ------------------------------------------------------------ SpecCase
\* A bbflow Case: integrands are registered under a name and a domain, and
\* Case.integrate(name, mu) is called any number of times.  An integrand and
\* the matrix it integrates to are numbers: the integral of an integrand over
\* a domain is the integrand times the measure of the domain.
\* Largest number of add_integrand calls on one case.
MaxIntegrands == 2
CaseNames == {"mass"}
CaseDomains == {"None", "patch0"}
CaseIntegrands == {1}
CaseScales == {"one", "mu"}
CaseMus == {1, 2}

\* 'lift-' + name
LiftName(name) == "lift-" \o name
AllNames == CaseNames \cup {LiftName(name) : name \in CaseNames}
Pairs == AllNames \X CaseDomains

\* scl(mu) for mu(1.0) and for the parameter itself
ScaleAt(scl, p) == IF scl = "one" THEN 1 ELSE p

\* domain.integrate(integrands, geometry=self.geom, ischeme='gauss9'): one
\* matrix per integrand
DomainIntegrate(itgs, dom) ==
    [k \in 1..Len(itgs) |-> itgs[k] * (IF dom = "None" THEN 2 ELSE 1)] \o << >>

\* Mutant of Computed: the stored matrices are never taken as present.
ComputedNever(matrices) == FALSE

\* if self._computed[name][dom]: a list is true when it is not empty
Computed(matrices) == Len(matrices) > 0

\* sum(mm * scl(mu) for mm, scl in zip(matrices, scales))
RECURSIVE ZipSum(_, _, _)
ZipSum(matrices, contents, p) ==
    IF Len(matrices) = 0 \/ Len(contents) = 0 THEN 0
    ELSE Head(matrices) * ScaleAt(Head(contents).scale, p)
         + ZipSum(Tail(matrices), Tail(contents), p)

\* The matrices Case.integrate uses for (name, dom): the stored ones, or the
\* ones it integrates now.
MatricesFor(name, dom) ==
    IF Computed(computed[<<name, dom>>]) THEN computed[<<name, dom>>]
    ELSE DomainIntegrate([k \in 1..Len(integrands[<<name, dom>>]) |->
                             integrands[<<name, dom>>][k].integrand] \o << >>, dom)

\* Case.__init__: no integrand registered, nothing computed
InitCase ==
    /\ integrands = [p \in Pairs |-> << >>]
    /\ computed = [p \in Pairs |-> << >>]
    /\ integrations = [p \in Pairs |-> 0]
    /\ caseCall = NoCall
    /\ caseRet = Idle
    /\ BaseIdle /\ LifeIdle /\ CtorIdle /\ NewtonIdle

\* The number of integrands registered under the names given to add_integrand.
Registered ==
    SumSet([p \in CaseNames \X CaseDomains |-> Len(integrands[p])],
           CaseNames \X CaseDomains)

\* Case.add_integrand(name, rhs, integrand, scale, domain, symmetric)
AddIntegrand ==
    /\ Registered < MaxIntegrands
    /\ \E name \in CaseNames, rhs \in BOOLEAN, integrand \in CaseIntegrands,
          scale \in CaseScales, domain \in CaseDomains, symmetric \in BOOLEAN :
          LET itg == IF symmetric THEN integrand + integrand ELSE integrand
              added == [integrands EXCEPT ![<<name, domain>>] =
                           Append(@, [integrand |-> itg, scale |-> scale])]
          IN /\ integrands' =
                   IF rhs
                   THEN [added EXCEPT ![<<LiftName(name), domain>>] =
                            Append(@, [integrand |-> -itg, scale |-> scale])]
                   ELSE added
             /\ caseCall' = [op |-> "add_integrand", name |-> name, domain |-> domain]
    /\ UNCHANGED <<computed, integrations, caseRet,
                   baseVars, lifeVars, ctorVars, newtonVars>>

\* Case.integrate(name, mu)
CaseIntegrate ==
    /\ \E name \in AllNames, p \in CaseMus :
          LET doms == {dom \in CaseDomains : Len(integrands[<<name, dom>>]) > 0}
              fresh == {dom \in doms : ~Computed(computed[<<name, dom>>])}
          IN /\ computed' = [q \in Pairs |->
                                IF q[1] = name /\ q[2] \in doms
                                THEN MatricesFor(name, q[2]) ELSE computed[q]]
             /\ integrations' = [q \in Pairs |->
                                    IF q[1] = name /\ q[2] \in fresh
                                    THEN integrations[q] + 1 ELSE integrations[q]]
             /\ caseRet' = Scalar(SumSet([dom \in doms |->
                                             ZipSum(MatricesFor(name, dom),
                                                    integrands[<<name, dom>>], p)],
                                         doms))
             /\ caseCall' = [op |-> "integrate", name |-> name, mu |-> p]
    /\ UNCHANGED <<integrands, baseVars, lifeVars, ctorVars, newtonVars>>

NextCase == AddIntegrand \/ CaseIntegrate
SpecCase == InitCase /\ [][NextCase]_vars

\* C30: over any sequence of add_integrand and integrate calls the domain
\* integration of a (name, domain) pair is executed at most once, by the
\* first integrate call that needs it; the matrices stored for a pair never
\* change once set, so integrands added to the pair later are not
\* integrated; and every integrate call returns the stored matrices weighted
\* by the scales at its mu.
C30_IntegratedOnce ==
    /\ [](\A q \in Pairs :
             /\ integrations[q] <= 1
             /\ integrations[q] = 1 <=> Len(computed[q]) > 0
             /\ Len(computed[q]) <= Len(integrands[q]))
    /\ [][\A q \in Pairs :
             /\ Len(computed[q]) > 0 => computed'[q] = computed[q]
             /\ (caseCall'.op = "integrate" /\ caseCall'.name = q[1]
                 /\ Len(integrands[q]) > 0) => Len(computed'[q]) > 0]_vars
    /\ [](caseCall.op = "integrate" =>
             caseRet = Scalar(SumSet([dom \in CaseDomains |->
                                         ZipSum(computed[<<caseCall.name, dom>>],
                                                integrands[<<caseCall.name, dom>>],
                                                caseCall.mu)],
                                     CaseDomains)))

\* C30 witness: an integrand was added to a pair after the pair had been
\* integrated, and a later integrate call with another mu used the one
\* stored matrix.
C30_Witness ==
    /\ caseCall.op = "integrate"
    /\ caseCall.name = "mass"
    /\ caseCall.mu = 2
    /\ Len(integrands[<<"mass", "None">>]) = 2
    /\ Len(computed[<<"mass", "None">>]) = 1
    /\ integrations[<<"mass", "None">>] = 1
    /\ integrands[<<"mass", "None">>][1].scale = "mu"

====
